---- MODULE Spec2Model ----
(***************************************************************************)
(* The persistent job queue of the music-generation backend:               *)
(* JobQueueService (python/app/services/job_queue.py) over the jobs table  *)
(* of the Job model (python/app/models/job.py), the router and handlers   *)
(* of the job API (python/app/api/jobs.py), and the tasks that process    *)
(* jobs (python/app/workers/example_worker.py, python/demo_job_queue.py).  *)
(*                                                                         *)
(* A row of the jobs table is a record; the table is a function from the   *)
(* ids of the stored jobs to rows.  Timestamps are readings of one clock,  *)
(* now, which the Tick action advances.  The column updated_at is not      *)
(* modelled: only list_jobs reads it, when asked to order by it.           *)
(***************************************************************************)
EXTENDS Integers, Sequences, FiniteSets, TLC

VARIABLES
    jobs,      \* the jobs table: job id -> row
    issued,    \* how many ids enqueue_job has generated so far
    now,       \* the clock that datetime.now() and func.now() read
    call,      \* the most recent service call: its arguments and what it returned
    sess,      \* per worker: the database session of a get_next_job call in flight
    client     \* the caller, worker or background task that runs a scenario:
               \* how far it has got

vars == <<jobs, issued, now, call, sess, client>>

----------------------------------------------------------------------------
(* Bounds of the model *)

\* most jobs enqueued in the queue-ordering specification
MaxJobs == 2
\* most jobs enqueued in the specifications that follow one job through its operations
FewJobs == 1
\* number of workers racing for the one job in the race specification
NumRacers == 2
\* last reading of the clock
MaxTime == 1

----------------------------------------------------------------------------
(* Python values *)

\* Optional[T]: None is the empty tuple, a present value x is <<x>>
None == <<>>
Some(x) == <<x>>
IsNone(o) == o = None
Get(o) == o[1]

\* truth value of an Optional[str]: None and "" are false
TruthyStr(o) == ~IsNone(o) /\ Get(o) # ""

\* truth value of an Optional[dict] or Optional[list]: None, {} and [] are false
TruthySeq(o) == ~IsNone(o) /\ Len(Get(o)) > 0

Min(a, b) == IF a < b THEN a ELSE b
Max(a, b) == IF a > b THEN a ELSE b

\* JobStatus
QUEUED == "queued"
PROCESSING == "processing"
COMPLETED == "completed"
FAILED == "failed"
PENDING == "pending"
LOADING_MODEL == "loading_model"
PREPARING_PROMPT == "preparing_prompt"
GENERATING_AUDIO == "generating_audio"
EXPORTING == "exporting"
ANALYZING == "analyzing"
RENDERING == "rendering"

JobStatus ==
    {QUEUED, PROCESSING, COMPLETED, FAILED, PENDING, LOADING_MODEL,
     PREPARING_PROMPT, GENERATING_AUDIO, EXPORTING, ANALYZING, RENDERING}

----------------------------------------------------------------------------
(* The JSON columns request_data and result_data.                          *)
(* A Python dict is the sequence of its <<key, value>> items in insertion  *)
(* order (keys distinct); a value is a str or an int, written              *)
(* [type |-> "str" | "int", text |-> its digits or characters].  The       *)
(* column holds the JSON text, here its sequence of tokens.                *)

Str(s) == [type |-> "str", text |-> s]
Int_(s) == [type |-> "int", text |-> s]

Tok(kind, text) == [kind |-> kind, text |-> text]

DumpValue(v) ==
    IF v.type = "int" THEN Tok("number", v.text) ELSE Tok("string", v.text)

RECURSIVE DumpMembers(_, _)
DumpMembers(d, i) ==
    IF i > Len(d) THEN <<>>
    ELSE (IF i > 1 THEN <<Tok("punct", ",")>> ELSE <<>>)
         \o <<Tok("string", d[i][1]), Tok("punct", ":"), DumpValue(d[i][2])>>
         \o DumpMembers(d, i + 1)

\* json.dumps of a dict, as the JSON column type does on the way in
JsonDumps(d) == <<Tok("punct", "{")>> \o DumpMembers(d, 1) \o <<Tok("punct", "}")>>

LoadValue(t) ==
    IF t.kind = "number" THEN Int_(t.text) ELSE Str(t.text)

RECURSIVE LoadMembers(_, _)
LoadMembers(s, i) ==
    IF s[i] = Tok("punct", "}") THEN <<>>
    ELSE LET k == IF s[i] = Tok("punct", ",") THEN i + 1 ELSE i
         IN  <<<<s[k].text, LoadValue(s[k + 2])>>>> \o LoadMembers(s, k + 3)

\* JsonLoads that keeps only the first member
JsonLoads_FirstMember(s) == SubSeq(LoadMembers(s, 2), 1, 1)

\* json.loads of a column value, as the JSON column type does on the way out
JsonLoads(s) == LoadMembers(s, 2)

\* dict.__eq__: the same items, whatever the insertion order
DictEq(a, b) ==
    {a[i] : i \in 1..Len(a)} = {b[i] : i \in 1..Len(b)}

----------------------------------------------------------------------------
(* The Job model *)

\* Job(id=, job_type=, status=, priority=, request_data=) inserted at time t:
\* the other columns take their defaults
NewJob(job_type, status, priority, request_data, t) ==
    [status       |-> status,
     progress     |-> 0,
     job_type     |-> job_type,
     priority     |-> priority,
     request_data |-> JsonDumps(request_data),
     result_data  |-> None,
     message      |-> None,
     error        |-> None,
     created_at   |-> t,
     started_at   |-> None,
     completed_at |-> None,
     worker_id    |-> None]

\* the request_data attribute of a loaded Job
RequestData(job) == JsonLoads(job.request_data)

\* the result_data attribute of a loaded Job
ResultData(job) ==
    IF IsNone(job.result_data) THEN None ELSE Some(JsonLoads(Get(job.result_data)))

is_finished(job) == job.status \in {COMPLETED, FAILED}

\* is_active without QUEUED
is_active_NotQueued(job) ==
    job.status \in {PROCESSING, PENDING, LOADING_MODEL, PREPARING_PROMPT,
                    GENERATING_AUDIO, EXPORTING, ANALYZING, RENDERING}

is_active(job) ==
    job.status \in {QUEUED, PROCESSING, PENDING, LOADING_MODEL, PREPARING_PROMPT,
                    GENERATING_AUDIO, EXPORTING, ANALYZING, RENDERING}

mark_started(job, worker_id, t) ==
    [job EXCEPT !.started_at = Some(t), !.worker_id = worker_id]

\* mark_completed leaving progress as it is
mark_completed_KeepsProgress(job, result_data, t) ==
    [job EXCEPT
        !.status = COMPLETED,
        !.completed_at = Some(t),
        !.result_data = IF TruthySeq(result_data)
                        THEN Some(JsonDumps(Get(result_data))) ELSE @,
        !.message = IF ~TruthyStr(@) THEN Some("Job completed successfully") ELSE @]

mark_completed(job, result_data, t) ==
    [job EXCEPT
        !.status = COMPLETED,
        !.progress = 100,
        !.completed_at = Some(t),
        !.result_data = IF TruthySeq(result_data)
                        THEN Some(JsonDumps(Get(result_data))) ELSE @,
        !.message = IF ~TruthyStr(@) THEN Some("Job completed successfully") ELSE @]

\* mark_failed leaving completed_at as it is
mark_failed_NoStamp(job, error, message, t) ==
    [job EXCEPT
        !.status = FAILED,
        !.error = Some(error),
        !.message = IF TruthyStr(message) THEN message
                    ELSE IF ~TruthyStr(@) THEN Some("Job failed") ELSE @]

mark_failed(job, error, message, t) ==
    [job EXCEPT
        !.status = FAILED,
        !.completed_at = Some(t),
        !.error = Some(error),
        !.message = IF TruthyStr(message) THEN message
                    ELSE IF ~TruthyStr(@) THEN Some("Job failed") ELSE @]

----------------------------------------------------------------------------
(* JobQueueService *)

\* the record of a call: every field has one type whatever the operation
NoCall ==
    [op           |-> "",        \* the operation called
     id           |-> 0,         \* its job_id argument, or the id enqueue_job returned
     status       |-> None,      \* its status argument
     progress     |-> None,      \* its progress argument
     worker       |-> None,      \* its worker_id argument
     job_types    |-> None,      \* its job_types argument
     job_type     |-> "",        \* enqueue_job's job_type argument
     priority     |-> 0,         \* enqueue_job's priority argument
     request_data |-> <<>>,      \* enqueue_job's request_data argument
     job          |-> None,      \* the Job returned (its id), None for a null return
     ok           |-> FALSE,     \* the bool returned
     message      |-> None,      \* its message argument
     error        |-> None,      \* its error argument
     result_data  |-> None,      \* its result_data argument
     filter       |-> None,      \* list_jobs' status argument
     type_filter  |-> None,      \* list_jobs' and get_job_stats' job_type argument
     limit        |-> 0,         \* list_jobs' limit argument
     offset       |-> 0,         \* list_jobs' offset argument
     order_by     |-> "",        \* list_jobs' order_by argument
     days         |-> 0,         \* cleanup_old_jobs' days argument
     cutoff       |-> 0,         \* the cutoff_date cleanup_old_jobs computed
     rows         |-> <<>>,      \* the jobs returned by list_jobs (their ids, in order)
     count        |-> 0,         \* the number returned by cleanup_old_jobs
     stats        |-> <<>>,      \* the dict returned by get_job_stats
     http         |-> 0,         \* the status code of the HTTP response
     path         |-> <<>>,      \* the path of the HTTP request, below the router's prefix
     handler      |-> "",        \* the route handler the request was dispatched to
     raised       |-> None]      \* the text of the exception the call raised, if it raised

\* ClampProgress without the upper limit
ClampProgress_NoUpper(progress) == Max(0, progress)

\* ClampProgress without the lower limit
ClampProgress_NoLower(progress) == Min(100, progress)

\* the value assigned to job.progress
ClampProgress(progress) == Max(0, Min(100, progress))

\* enqueue_job: a fresh id, one inserted row, the id returned
EnqueueJob(job_type, request_data, priority, status) ==
    LET job_id == issued + 1
    IN  /\ issued' = job_id
        /\ jobs' = (job_id :> NewJob(job_type, status, priority, request_data, now)) @@ jobs
        /\ call' = [NoCall EXCEPT !.op = "enqueue_job", !.id = job_id,
                                  !.job_type = job_type, !.priority = priority,
                                  !.request_data = request_data,
                                  !.status = Some(status)]
        /\ UNCHANGED <<now, sess>>

\* get_job: the row with that id, or None
GetJob(job_id) ==
    /\ call' = [NoCall EXCEPT !.op = "get_job", !.id = job_id,
                              !.job = IF job_id \in DOMAIN jobs THEN Some(job_id) ELSE None]
    /\ UNCHANGED <<jobs, issued, now, sess>>

\* the status branch of update_job without the default error string
WithStatus_NoDefault(job, status, message, error, result_data, worker_id, t) ==
    LET j == [job EXCEPT !.status = status]
    IN  IF status = PROCESSING /\ IsNone(j.started_at)
        THEN mark_started(j, worker_id, t)
        ELSE IF status = COMPLETED
        THEN mark_completed(j, result_data, t)
        ELSE IF status = FAILED
        THEN mark_failed(j, IF TruthyStr(error) THEN Get(error) ELSE "", message, t)
        ELSE j

\* the status branch of update_job
WithStatus(job, status, message, error, result_data, worker_id, t) ==
    LET j == [job EXCEPT !.status = status]
    IN  IF status = PROCESSING /\ IsNone(j.started_at)
        THEN mark_started(j, worker_id, t)
        ELSE IF status = COMPLETED
        THEN mark_completed(j, result_data, t)
        ELSE IF status = FAILED
        THEN mark_failed(j, IF TruthyStr(error) THEN Get(error) ELSE "Unknown error",
                         message, t)
        ELSE j

\* update_job resetting the priority of the job it updates
UpdatedJob_ResetsPriority(job, status, progress, message, error, result_data, worker_id, t) ==
    [job EXCEPT !.priority = 0,
                !.progress = IF ~IsNone(progress) THEN ClampProgress(Get(progress)) ELSE @]

\* update_job keeping the larger of the stored and the given progress
UpdatedJob_Monotone(job, status, progress, message, error, result_data, worker_id, t) ==
    LET j1 == IF ~IsNone(status)
              THEN WithStatus(job, Get(status), message, error, result_data, worker_id, t)
              ELSE job
        j2 == IF ~IsNone(progress) /\ ClampProgress(Get(progress)) > j1.progress
              THEN [j1 EXCEPT !.progress = ClampProgress(Get(progress))]
              ELSE j1
        j3 == IF ~IsNone(message) THEN [j2 EXCEPT !.message = message] ELSE j2
        j4 == IF ~IsNone(error) THEN [j3 EXCEPT !.error = error] ELSE j3
        j5 == IF ~IsNone(result_data)
              THEN [j4 EXCEPT !.result_data = Some(JsonDumps(Get(result_data)))]
              ELSE j4
        j6 == IF ~IsNone(worker_id) THEN [j5 EXCEPT !.worker_id = worker_id] ELSE j5
    IN  j6

\* the row update_job leaves for a job it found
UpdatedJob(job, status, progress, message, error, result_data, worker_id, t) ==
    LET j1 == IF ~IsNone(status)
              THEN WithStatus(job, Get(status), message, error, result_data, worker_id, t)
              ELSE job
        j2 == IF ~IsNone(progress)
              THEN [j1 EXCEPT !.progress = ClampProgress(Get(progress))]
              ELSE j1
        j3 == IF ~IsNone(message) THEN [j2 EXCEPT !.message = message] ELSE j2
        j4 == IF ~IsNone(error) THEN [j3 EXCEPT !.error = error] ELSE j3
        j5 == IF ~IsNone(result_data)
              THEN [j4 EXCEPT !.result_data = Some(JsonDumps(Get(result_data)))]
              ELSE j4
        j6 == IF ~IsNone(worker_id) THEN [j5 EXCEPT !.worker_id = worker_id] ELSE j5
    IN  j6

\* update_job returning True for a job that is not stored
DoUpdate_MissingOk(op, job_id, status, progress, message, error, result_data, worker_id) ==
    /\ IF job_id \notin DOMAIN jobs
       THEN /\ jobs' = jobs
            /\ call' = [NoCall EXCEPT !.op = op, !.id = job_id, !.status = status,
                                      !.progress = progress, !.message = message,
                                      !.error = error, !.result_data = result_data,
                                      !.worker = worker_id, !.ok = TRUE]
       ELSE /\ jobs' = [jobs EXCEPT ![job_id] =
                           UpdatedJob(@, status, progress, message, error,
                                      result_data, worker_id, now)]
            /\ call' = [NoCall EXCEPT !.op = op, !.id = job_id, !.status = status,
                                      !.progress = progress, !.message = message,
                                      !.error = error, !.result_data = result_data,
                                      !.worker = worker_id, !.ok = TRUE]
    /\ UNCHANGED <<issued, now, sess>>

\* update_job refusing to touch a job that is COMPLETED or FAILED
DoUpdate_TerminalFinal(op, job_id, status, progress, message, error, result_data, worker_id) ==
    /\ IF job_id \notin DOMAIN jobs \/ is_finished(jobs[job_id])
       THEN /\ jobs' = jobs
            /\ call' = [NoCall EXCEPT !.op = op, !.id = job_id, !.status = status,
                                      !.progress = progress, !.message = message,
                                      !.error = error, !.result_data = result_data,
                                      !.worker = worker_id, !.ok = FALSE]
       ELSE /\ jobs' = [jobs EXCEPT ![job_id] =
                           UpdatedJob(@, status, progress, message, error,
                                      result_data, worker_id, now)]
            /\ call' = [NoCall EXCEPT !.op = op, !.id = job_id, !.status = status,
                                      !.progress = progress, !.message = message,
                                      !.error = error, !.result_data = result_data,
                                      !.worker = worker_id, !.ok = TRUE]
    /\ UNCHANGED <<issued, now, sess>>

\* what update_job does to the table and returns, recorded as a call of `op`
DoUpdate(op, job_id, status, progress, message, error, result_data, worker_id) ==
    /\ IF job_id \notin DOMAIN jobs
       THEN /\ jobs' = jobs
            /\ call' = [NoCall EXCEPT !.op = op, !.id = job_id, !.status = status,
                                      !.progress = progress, !.message = message,
                                      !.error = error, !.result_data = result_data,
                                      !.worker = worker_id, !.ok = FALSE]
       ELSE /\ jobs' = [jobs EXCEPT ![job_id] =
                           UpdatedJob(@, status, progress, message, error,
                                      result_data, worker_id, now)]
            /\ call' = [NoCall EXCEPT !.op = op, !.id = job_id, !.status = status,
                                      !.progress = progress, !.message = message,
                                      !.error = error, !.result_data = result_data,
                                      !.worker = worker_id, !.ok = TRUE]
    /\ UNCHANGED <<issued, now, sess>>

UpdateJob(job_id, status, progress, message, error, result_data, worker_id) ==
    DoUpdate("update_job", job_id, status, progress, message, error, result_data,
             worker_id)

\* update_progress marking the job PROCESSING as it reports
UpdateProgress_Starts(job_id, progress, message) ==
    DoUpdate("update_progress", job_id, Some(PROCESSING), Some(progress), message, None, None, None)

UpdateProgress(job_id, progress, message) ==
    DoUpdate("update_progress", job_id, None, Some(progress), message, None, None, None)

\* the rows get_next_job's query filters in
Available(js, job_types) ==
    {j \in DOMAIN js :
        /\ js[j].status \in {QUEUED, PENDING}
        /\ TruthySeq(job_types) =>
              \E i \in 1..Len(Get(job_types)) : js[j].job_type = Get(job_types)[i]}

\* SortsBefore with the priority ascending
SortsBefore_Ascending(a, b) ==
    \/ a.priority < b.priority
    \/ a.priority = b.priority /\ a.created_at < b.created_at

\* row a sorts strictly before row b under order_by(desc(priority), created_at)
SortsBefore(a, b) ==
    \/ a.priority > b.priority
    \/ a.priority = b.priority /\ a.created_at < b.created_at

\* the rows .first() may return: the order among rows equal in both keys is
\* the database's choice
FirstOf(js, rows) ==
    {j \in rows : \A k \in rows : ~SortsBefore(js[k], js[j])}

\* Claimed without the worker recorded
Claimed_NoWorker(job, worker_id, t) ==
    mark_started([job EXCEPT !.status = PROCESSING], None, t)

\* the row after get_next_job has marked it for the worker
Claimed(job, worker_id, t) ==
    mark_started([job EXCEPT !.status = PROCESSING], worker_id, t)

\* get_next_job marking the job it found also when no worker_id is given
GetNextJob_PeekClaims(job_types, worker_id) ==
    LET first == FirstOf(jobs, Available(jobs, job_types))
    IN  /\ IF first = {}
           THEN /\ jobs' = jobs
                /\ call' = [NoCall EXCEPT !.op = "get_next_job", !.worker = worker_id,
                                          !.job_types = job_types, !.job = None]
           ELSE \E j \in first :
                /\ jobs' = [jobs EXCEPT ![j] = Claimed(@, worker_id, now)]
                /\ call' = [NoCall EXCEPT !.op = "get_next_job", !.worker = worker_id,
                                          !.job_types = job_types, !.job = Some(j)]
        /\ UNCHANGED <<issued, now, sess>>

\* get_next_job run without interruption
GetNextJob(job_types, worker_id) ==
    LET first == FirstOf(jobs, Available(jobs, job_types))
    IN  /\ IF first = {}
           THEN /\ jobs' = jobs
                /\ call' = [NoCall EXCEPT !.op = "get_next_job", !.worker = worker_id,
                                          !.job_types = job_types, !.job = None]
           ELSE \E j \in first :
                /\ IF TruthyStr(worker_id)
                   THEN jobs' = [jobs EXCEPT ![j] = Claimed(@, worker_id, now)]
                   ELSE jobs' = jobs
                /\ call' = [NoCall EXCEPT !.op = "get_next_job", !.worker = worker_id,
                                          !.job_types = job_types, !.job = Some(j)]
        /\ UNCHANGED <<issued, now, sess>>

\* list_jobs' status argument: one JobStatus, or a list of them
OneStatus(st) == Some([list |-> FALSE, of |-> <<st>>])
StatusList(sts) == Some([list |-> TRUE, of |-> sts])

\* `if status:` a JobStatus is a non-empty str, a list is true unless empty
TruthyFilter(status) ==
    /\ ~IsNone(status)
    /\ Get(status).list => Get(status).of # <<>>

\* the rows list_jobs' filters keep
Filtered(js, status, job_type) ==
    {j \in DOMAIN js :
        /\ TruthyFilter(status) =>
               \E i \in 1..Len(Get(status).of) : js[j].status = Get(status).of[i]
        /\ TruthyStr(job_type) => js[j].job_type = Get(job_type)}

\* list_jobs' ORDER BY: row a has to come before row b.  The ordering by
\* updated_at is not modelled; any other order_by is the ordering by created_at.
ListedBefore(order_by, a, b) ==
    IF order_by = "priority"
    THEN \/ a.priority > b.priority
         \/ a.priority = b.priority /\ a.created_at < b.created_at
    ELSE a.created_at > b.created_at

\* the orders the database may return the rows in: rows equal in the
\* ordering keys come in any order
Ordered(js, rows, order_by) ==
    {s \in [1..Cardinality(rows) -> rows] :
        \A i, j \in 1..Cardinality(rows) :
            i < j => /\ s[i] # s[j]
                     /\ ~ListedBefore(order_by, js[s[j]], js[s[i]])}

\* .offset(offset).limit(limit)
Page(s, offset, limit) ==
    [i \in 1..Max(0, Min(Len(s) - offset, limit)) |-> s[offset + i]]

ListJobs(status, job_type, limit, offset, order_by) ==
    /\ \E s \in Ordered(jobs, Filtered(jobs, status, job_type), order_by) :
           call' = [NoCall EXCEPT !.op = "list_jobs", !.filter = status,
                                  !.type_filter = job_type, !.limit = limit,
                                  !.offset = offset, !.order_by = order_by,
                                  !.rows = Page(s, offset, limit)]
    /\ UNCHANGED <<jobs, issued, now, sess>>

\* the sum of f over the keys in S
RECURSIVE SumOver(_, _)
SumOver(f, S) ==
    IF S = {} THEN 0
    ELSE LET k == CHOOSE x \in S : TRUE IN f[k] + SumOver(f, S \ {k})

\* the dict get_job_stats builds: a count per status, then "total"
StatusCounts(js, job_type) ==
    LET query == {j \in DOMAIN js : TruthyStr(job_type) => js[j].job_type = Get(job_type)}
    IN  [k \in JobStatus \cup {"total"} |->
            IF k = "total" THEN Cardinality(query)
            ELSE Cardinality({j \in query : js[j].status = k})]

\* stats["active"] summing the count of PROCESSING alone
Stats_ActiveIsProcessing(js, job_type) ==
    LET stats == StatusCounts(js, job_type)
    IN  [k \in DOMAIN stats \cup {"active"} |->
            IF k = "active" THEN SumOver(stats, DOMAIN stats \cap {PROCESSING})
            ELSE stats[k]]

\* the dict get_job_stats returns: stats["active"] sums the entries whose key
\* is a status other than COMPLETED and FAILED
Stats(js, job_type) ==
    LET stats == StatusCounts(js, job_type)
    IN  [k \in DOMAIN stats \cup {"active"} |->
            IF k = "active"
            THEN SumOver(stats, DOMAIN stats \cap (JobStatus \ {COMPLETED, FAILED}))
            ELSE stats[k]]

GetJobStats(job_type) ==
    /\ call' = [NoCall EXCEPT !.op = "get_job_stats", !.type_filter = job_type,
                              !.stats = Stats(jobs, job_type)]
    /\ UNCHANGED <<jobs, issued, now, sess>>

\* the rows cleanup_old_jobs deletes: created before the cutoff, of the status
\* asked for or, when none is asked for, COMPLETED or FAILED
OldJobs(js, days, status, t) ==
    {j \in DOMAIN js :
        /\ js[j].created_at < t - days
        /\ TruthyStr(status) => js[j].status = Get(status)
        /\ IsNone(status) => js[j].status = COMPLETED \/ js[j].status = FAILED}

\* cleanup_old_jobs deleting old jobs of every status when no status is asked for
cleanup_old_jobs_AnyStatus(days, status) ==
    LET old == {j \in DOMAIN jobs :
                   /\ jobs[j].created_at < now - days
                   /\ TruthyStr(status) => jobs[j].status = Get(status)}
    IN  /\ jobs' = [k \in DOMAIN jobs \ old |-> jobs[k]]
        /\ call' = [NoCall EXCEPT !.op = "cleanup_old_jobs", !.days = days,
                                  !.cutoff = now - days, !.status = status,
                                  !.count = Cardinality(old)]
        /\ UNCHANGED <<issued, now, sess>>

\* cleanup_old_jobs taking no notice of the status asked for
cleanup_old_jobs_NoStatusFilter(days, status) ==
    LET old == {j \in DOMAIN jobs :
                   /\ jobs[j].created_at < now - days
                   /\ IsNone(status) =>
                          jobs[j].status = COMPLETED \/ jobs[j].status = FAILED}
    IN  /\ jobs' = [k \in DOMAIN jobs \ old |-> jobs[k]]
        /\ call' = [NoCall EXCEPT !.op = "cleanup_old_jobs", !.days = days,
                                  !.cutoff = now - days, !.status = status,
                                  !.count = Cardinality(old)]
        /\ UNCHANGED <<issued, now, sess>>

\* count = query.count(); query.delete(); db.commit(); return count
cleanup_old_jobs(days, status) ==
    LET old == OldJobs(jobs, days, status, now)
    IN  /\ jobs' = [k \in DOMAIN jobs \ old |-> jobs[k]]
        /\ call' = [NoCall EXCEPT !.op = "cleanup_old_jobs", !.days = days,
                                  !.cutoff = now - days, !.status = status,
                                  !.count = Cardinality(old)]
        /\ UNCHANGED <<issued, now, sess>>

----------------------------------------------------------------------------
(* The HTTP API over the service (python/app/api/jobs.py) *)

HTTP_200_OK == 200
HTTP_400_BAD_REQUEST == 400
HTTP_404_NOT_FOUND == 404

\* the dependency get_job_by_id: the job, or None when it raises the 404
get_job_by_id(job_id) == IF job_id \in DOMAIN jobs THEN Some(job_id) ELSE None

\* GET /{job_id}
get_job_status(job_id) ==
    /\ call' = [NoCall EXCEPT !.op = "get_job_status", !.id = job_id,
                              !.job = get_job_by_id(job_id),
                              !.http = IF IsNone(get_job_by_id(job_id))
                                       THEN HTTP_404_NOT_FOUND ELSE HTTP_200_OK]
    /\ UNCHANGED <<jobs, issued, now, sess>>

\* DELETE /{job_id} deleting whatever job it is given
delete_job_Unguarded(job_id) ==
    /\ IF IsNone(get_job_by_id(job_id))
       THEN /\ jobs' = jobs
            /\ call' = [NoCall EXCEPT !.op = "delete_job", !.id = job_id,
                                      !.http = HTTP_404_NOT_FOUND]
       ELSE /\ jobs' = [k \in DOMAIN jobs \ {job_id} |-> jobs[k]]
            /\ call' = [NoCall EXCEPT !.op = "delete_job", !.id = job_id,
                                      !.http = HTTP_200_OK]
    /\ UNCHANGED <<issued, now, sess>>

\* DELETE /{job_id}
delete_job(job_id) ==
    /\ IF IsNone(get_job_by_id(job_id))
       THEN /\ jobs' = jobs
            /\ call' = [NoCall EXCEPT !.op = "delete_job", !.id = job_id,
                                      !.http = HTTP_404_NOT_FOUND]
       ELSE IF is_active(jobs[job_id])
       THEN /\ jobs' = jobs
            /\ call' = [NoCall EXCEPT !.op = "delete_job", !.id = job_id,
                                      !.http = HTTP_400_BAD_REQUEST]
       ELSE /\ jobs' = [k \in DOMAIN jobs \ {job_id} |-> jobs[k]]
            /\ call' = [NoCall EXCEPT !.op = "delete_job", !.id = job_id,
                                      !.http = HTTP_200_OK]
    /\ UNCHANGED <<issued, now, sess>>

----------------------------------------------------------------------------
HTTP_422_UNPROCESSABLE_ENTITY == 422

\* JobStatus(value): the member with that value, or None where the
\* constructor raises ValueError
JobStatusOf(value) == IF value \in JobStatus THEN Some(value) ELSE None

\* POST "" : the body is validated by JobCreateRequest (priority within 0..100)
\* before the handler runs; the handler converts the status string, then
\* enqueues and reads the job back
create_job(job_type, request_data, priority, status) ==
    LET job_id == issued + 1
        answer(code) == [NoCall EXCEPT !.op = "create_job", !.job_type = job_type,
                                       !.priority = priority,
                                       !.request_data = request_data,
                                       !.status = Some(status), !.http = code]
    IN  /\ IF priority \notin 0..100
           THEN /\ UNCHANGED <<jobs, issued>>
                /\ call' = answer(HTTP_422_UNPROCESSABLE_ENTITY)
           ELSE IF IsNone(JobStatusOf(status))
           THEN /\ UNCHANGED <<jobs, issued>>
                /\ call' = answer(HTTP_400_BAD_REQUEST)
           ELSE /\ issued' = job_id
                /\ jobs' = (job_id :> NewJob(job_type, Get(JobStatusOf(status)), priority,
                                             request_data, now)) @@ jobs
                /\ call' = [answer(HTTP_200_OK) EXCEPT !.id = job_id,
                                                       !.job = Some(job_id)]
        /\ UNCHANGED <<now, sess>>

\* PUT /{job_id} : the dependency get_job_by_id answers 404 first; the status
\* string is converted only when it is truthy; the service's update_job then
\* finds the job the dependency has just found
update_job(job_id, status, progress, message, error, result_data) ==
    LET answer(code) == [NoCall EXCEPT !.op = "PUT update_job", !.id = job_id,
                                       !.status = status, !.progress = progress,
                                       !.message = message, !.error = error,
                                       !.result_data = result_data, !.http = code]
        status_enum == IF TruthyStr(status) THEN JobStatusOf(Get(status)) ELSE None
    IN  /\ IF IsNone(get_job_by_id(job_id))
           THEN /\ jobs' = jobs
                /\ call' = answer(HTTP_404_NOT_FOUND)
           ELSE IF TruthyStr(status) /\ IsNone(JobStatusOf(Get(status)))
           THEN /\ jobs' = jobs
                /\ call' = [answer(HTTP_400_BAD_REQUEST) EXCEPT !.job = Some(job_id)]
           ELSE /\ jobs' = [jobs EXCEPT ![job_id] =
                               UpdatedJob(@, status_enum, progress, message, error,
                                          result_data, None, now)]
                /\ call' = [answer(HTTP_200_OK) EXCEPT !.job = Some(job_id)]
        /\ UNCHANGED <<issued, now, sess>>

\* POST /{job_id}/progress storing whatever progress it is sent
update_job_progress_Unvalidated(job_id, progress, message) ==
    LET answer(code) == [NoCall EXCEPT !.op = "update_job_progress", !.id = job_id,
                                       !.progress = Some(progress),
                                       !.message = message, !.http = code]
    IN  /\ IF IsNone(get_job_by_id(job_id))
           THEN /\ jobs' = jobs
                /\ call' = answer(HTTP_404_NOT_FOUND)
           ELSE /\ jobs' = [jobs EXCEPT ![job_id] =
                               UpdatedJob(@, None, Some(progress), message, None,
                                          None, None, now)]
                /\ call' = [answer(HTTP_200_OK) EXCEPT !.job = Some(job_id)]
        /\ UNCHANGED <<issued, now, sess>>

\* POST /{job_id}/progress : the dependency get_job_by_id answers 404 first;
\* the query parameter progress is validated (ge=0, le=100) before the handler
\* runs; the handler calls the service's update_progress
update_job_progress(job_id, progress, message) ==
    LET answer(code) == [NoCall EXCEPT !.op = "update_job_progress", !.id = job_id,
                                       !.progress = Some(progress),
                                       !.message = message, !.http = code]
    IN  /\ IF IsNone(get_job_by_id(job_id))
           THEN /\ jobs' = jobs
                /\ call' = answer(HTTP_404_NOT_FOUND)
           ELSE IF progress \notin 0..100
           THEN /\ jobs' = jobs
                /\ call' = [answer(HTTP_422_UNPROCESSABLE_ENTITY) EXCEPT !.job = Some(job_id)]
           ELSE /\ jobs' = [jobs EXCEPT ![job_id] =
                               UpdatedJob(@, None, Some(progress), message, None,
                                          None, None, now)]
                /\ call' = [answer(HTTP_200_OK) EXCEPT !.job = Some(job_id)]
        /\ UNCHANGED <<issued, now, sess>>

----------------------------------------------------------------------------

(* The router of python/app/api/jobs.py. A path below the prefix /api/jobs  *)
(* is the sequence of its segments; a segment in braces is a parameter and  *)
(* matches any one segment. A request goes to the first route, in the order *)
(* of declaration, whose method and path match.                             *)

Routes ==
    << [method |-> "GET",    path |-> <<"{job_id}">>,             handler |-> "get_job_status"],
       [method |-> "PUT",    path |-> <<"{job_id}">>,             handler |-> "update_job"],
       [method |-> "POST",   path |-> <<>>,                       handler |-> "create_job"],
       [method |-> "GET",    path |-> <<>>,                       handler |-> "list_jobs"],
       [method |-> "GET",    path |-> <<"stats", "{job_type}">>,  handler |-> "get_job_stats_by_type"],
       [method |-> "GET",    path |-> <<"stats">>,                handler |-> "get_job_stats"],
       [method |-> "POST",   path |-> <<"{job_id}", "progress">>, handler |-> "update_job_progress"],
       [method |-> "DELETE", path |-> <<"{job_id}">>,             handler |-> "delete_job"] >>

IsParam(segment) == segment \in {"{job_id}", "{job_type}"}

\* the route's path matches the request's path
Matches(route, method, path) ==
    /\ route.method = method
    /\ Len(route.path) = Len(path)
    /\ \A i \in 1..Len(path) : IsParam(route.path[i]) \/ route.path[i] = path[i]

\* the handler of the first matching route of the table, "" when none matches
Dispatch(routes, method, path) ==
    LET hits == {i \in 1..Len(routes) : Matches(routes[i], method, path)}
    IN  IF hits = {} THEN ""
        ELSE routes[CHOOSE i \in hits : \A k \in hits : i <= k].handler

\* the text of the id (a uuid) of the k-th job enqueued
JobIdText == <<"uuid-1", "uuid-2", "uuid-3", "uuid-4">>

\* the job id a path segment spells: 0, the id of no job, for any other text
JobIdOf(segment) ==
    IF \E k \in 1..Len(JobIdText) : JobIdText[k] = segment
    THEN CHOOSE k \in 1..Len(JobIdText) : JobIdText[k] = segment
    ELSE 0

\* a GET request: the handler the router picks answers it. list_jobs is
\* called with its defaults (limit 100, offset 0, created_at order) and
\* counts the matching jobs for `total`
HttpGet(path) ==
    LET handler == Dispatch(Routes, "GET", path)
        req == [NoCall EXCEPT !.op = "GET", !.path = path, !.handler = handler]
    IN  /\ CASE handler = "get_job_status" ->
                  call' = [req EXCEPT !.id = JobIdOf(path[1]),
                                      !.job = get_job_by_id(JobIdOf(path[1])),
                                      !.http = IF IsNone(get_job_by_id(JobIdOf(path[1])))
                                               THEN HTTP_404_NOT_FOUND ELSE HTTP_200_OK]
             [] handler = "get_job_stats_by_type" ->
                  call' = [req EXCEPT !.type_filter = Some(path[2]),
                                      !.stats = Stats(jobs, Some(path[2])),
                                      !.http = HTTP_200_OK]
             [] handler = "get_job_stats" ->
                  call' = [req EXCEPT !.stats = Stats(jobs, None),
                                      !.http = HTTP_200_OK]
             [] handler = "list_jobs" ->
                  \E s \in Ordered(jobs, Filtered(jobs, None, None), "created_at") :
                      call' = [req EXCEPT !.limit = 100, !.order_by = "created_at",
                                          !.rows = Page(s, 0, 100),
                                          !.count = Len(s),
                                          !.http = HTTP_200_OK]
             [] OTHER ->
                  call' = [req EXCEPT !.http = HTTP_404_NOT_FOUND]
        /\ UNCHANGED <<jobs, issued, now, sess>>

----------------------------------------------------------------------------

\* the clock advances
Tick ==
    /\ now < MaxTime
    /\ now' = now + 1
    /\ UNCHANGED <<jobs, issued, call, sess, client>>

----------------------------------------------------------------------------
(* Concurrent get_next_job calls, each in a session of its own: the query   *)
(* (.first()) and the flush of the changed columns (db.commit()) are two    *)
(* database round trips, and another call may run between them.             *)

WorkerNames == <<"worker_0", "worker_1", "worker_2", "worker_3">>
Racers == {WorkerNames[i] : i \in 1..NumRacers}

IdleSession == [pc |-> "idle", job |-> None]

\* query ... .first(): the session holds the row it selected, if any
RaceSelect(w, job_types) ==
    /\ sess[w].pc = "idle"
    /\ LET first == FirstOf(jobs, Available(jobs, job_types))
       IN  IF first = {}
           THEN sess' = [sess EXCEPT ![w] = [pc |-> "selected", job |-> None]]
           ELSE \E j \in first :
                    sess' = [sess EXCEPT ![w] = [pc |-> "selected", job |-> Some(j)]]
    /\ UNCHANGED <<jobs, issued, now, call, client>>

\* job.status = PROCESSING; job.mark_started(worker_id); db.commit(); return job:
\* the UPDATE names the row by id alone and writes status, started_at, worker_id
RaceCommit(w) ==
    /\ sess[w].pc = "selected"
    /\ IF ~IsNone(sess[w].job) /\ TruthyStr(Some(w))
       THEN jobs' = [jobs EXCEPT ![Get(sess[w].job)] = Claimed(@, Some(w), now)]
       ELSE jobs' = jobs
    /\ sess' = [sess EXCEPT ![w].pc = "returned"]
    /\ UNCHANGED <<issued, now, call, client>>

----------------------------------------------------------------------------
(* Inputs of the specifications *)

\* worker ids of the sequential specifications
Workers == {"worker1", "worker2"}
\* job types
JobTypes == {"example", "loop"}
\* the job_types an ExampleWorker asks for
WorkerJobTypes == <<"example", "test">>
\* request payloads
Doc1 == <<<<"prompt", Str("test prompt")>>, <<"duration", Int_("30")>>>>
Doc2 == <<<<"test", Str("data")>>>>
\* result payloads
Doc3 == <<<<"output", Str("mock_result.txt")>>>>
Doc4 == <<<<"output", Str("test.txt")>>>>

\* a caller that has not made its first call
NoClient ==
    [pc      |-> "start",   \* the call it makes next
     id      |-> 0,         \* the job_id enqueue_job returned to it
     todo    |-> <<>>,      \* the progress values it has still to report
     done    |-> <<>>,      \* the progress values it has reported
     result  |-> None,      \* the result_data it completed the job with
     error   |-> None,      \* the error it failed the job with
     message |-> None,      \* the message it failed the job with
     task    |-> "",        \* the task it runs, for a worker or a background task
     running |-> FALSE,     \* a worker's running flag
     session |-> FALSE]     \* whether a worker's service was given a session

Init ==
    /\ jobs = <<>>
    /\ issued = 0
    /\ now = 0
    /\ call = NoCall
    /\ sess = [w \in Racers |-> IdleSession]
    /\ client = NoClient

----------------------------------------------------------------------------
(* SpecQueue: priority-ordered claiming, one worker, one caller at a time *)

QEnqueue ==
    /\ issued < MaxJobs
    /\ \E p \in {1, 10}, st \in {QUEUED, PENDING} :
           EnqueueJob("test", Doc2, p, st)
    /\ UNCHANGED client

QClaim ==
    /\ GetNextJob(None, Some("worker1"))
    /\ UNCHANGED client

\* ExampleWorker.process_job puts a job back when the worker was stopped
QRequeue ==
    \E id \in DOMAIN jobs :
        /\ jobs[id].status = PROCESSING
        /\ UpdateJob(id, Some(QUEUED), None, Some("Worker stopped, job requeued"),
                     None, None, None)
        /\ UNCHANGED client

QueueNext == QEnqueue \/ QClaim \/ QRequeue \/ Tick

SpecQueue == Init /\ [][QueueNext]_vars

\* C2: with one caller at a time, a claim returns, among the jobs that are
\* QUEUED or PENDING, one of highest priority and, among those, of earliest
\* created_at (so a priority-10 job is handed out before a priority-1 job);
\* it returns null only when no job is QUEUED or PENDING; and the job it hands
\* out is no longer QUEUED or PENDING afterwards, so it is handed out again only
\* after an update has put it back.
C2_ClaimOrder ==
    [][ /\ (call'.op = "get_next_job" /\ ~IsNone(call'.job)
              /\ (jobs' # jobs \/ call' # call)) =>
            LET j == Get(call'.job)
            IN  /\ j \in DOMAIN jobs
                /\ jobs[j].status \in {QUEUED, PENDING}
                /\ \A k \in DOMAIN jobs :
                      jobs[k].status \in {QUEUED, PENDING} =>
                          /\ jobs[k].priority <= jobs[j].priority
                          /\ jobs[k].priority = jobs[j].priority =>
                                jobs[j].created_at <= jobs[k].created_at
                /\ jobs'[j].status \notin {QUEUED, PENDING}
        /\ (call'.op = "get_next_job" /\ IsNone(call'.job)) =>
            \A k \in DOMAIN jobs' : jobs'[k].status \notin {QUEUED, PENDING}
      ]_vars

\* a priority-1 job enqueued before the priority-10 job was claimed is the
\* job the latest claim returned, the priority-10 job having been claimed
C2_Witness ==
    /\ call.op = "get_next_job"
    /\ \E hi, lo \in DOMAIN jobs :
          /\ jobs[hi].priority = 10 /\ jobs[lo].priority = 1
          /\ call.job = Some(lo)
          /\ jobs[hi].status = PROCESSING /\ jobs[lo].status = PROCESSING
          /\ ~IsNone(jobs[hi].started_at)
          /\ jobs[lo].created_at <= Get(jobs[hi].started_at)

----------------------------------------------------------------------------
(* SpecClaim: claims, peeks and type filters over one job at a time *)

CEnqueue ==
    /\ issued < FewJobs
    /\ \E jt \in JobTypes, st \in {QUEUED, PENDING} : EnqueueJob(jt, Doc2, 0, st)
    /\ UNCHANGED client

CClaim ==
    \E jts \in {None, Some(WorkerJobTypes)},
       w \in {None} \cup {Some(x) : x \in Workers} :
        /\ GetNextJob(jts, w)
        /\ UNCHANGED client

CRequeue ==
    \E id \in DOMAIN jobs :
        /\ jobs[id].status = PROCESSING
        /\ UpdateJob(id, Some(QUEUED), None, Some("Worker stopped, job requeued"),
                     None, None, None)
        /\ UNCHANGED client

\* ExampleWorker.process_job marks the job completed
CComplete ==
    \E id \in DOMAIN jobs :
        /\ jobs[id].status = PROCESSING
        /\ UpdateJob(id, Some(COMPLETED), None, None, None, Some(Doc1), None)
        /\ UNCHANGED client

ClaimNext == CEnqueue \/ CClaim \/ CRequeue \/ CComplete \/ Tick

SpecClaim == Init /\ [][ClaimNext]_vars

\* the jobs a call with these job_types may be given
C3_Eligible(js, job_types) ==
    {j \in DOMAIN js :
        /\ js[j].status = QUEUED \/ js[j].status = PENDING
        /\ (~IsNone(job_types) /\ Get(job_types) # <<>>) =>
               js[j].job_type \in {Get(job_types)[i] : i \in 1..Len(Get(job_types))}}

----------------------------------------------------------------------------
(* SpecEnqueue: enqueue_job and get_job *)

EEnqueue ==
    /\ issued < FewJobs
    /\ \E jt \in JobTypes, rd \in {Doc1, Doc2}, p \in {0, 5}, st \in {QUEUED, PENDING} :
           EnqueueJob(jt, rd, p, st)
    /\ UNCHANGED client

EGet ==
    /\ \E id \in 1..(issued + 1) : GetJob(id)
    /\ UNCHANGED client

EProgress ==
    /\ \E id \in 1..(issued + 1) : UpdateProgress(id, 25, Some("Processing..."))
    /\ UNCHANGED client

EStart ==
    /\ \E id \in DOMAIN jobs :
           UpdateJob(id, Some(PROCESSING), None, None, None, None, None)
    /\ UNCHANGED client

EnqueueNext == EEnqueue \/ EGet \/ EProgress \/ EStart

SpecEnqueue == Init /\ [][EnqueueNext]_vars

\* C4: enqueue_job with the status left at QUEUED, followed at once by get_job
\* on the id it returned, finds the job with status QUEUED, progress 0 and the
\* job_type, request_data and priority that were passed in.
C4_EnqueueThenGet ==
    [][ (call.op = "enqueue_job" /\ call.status = Some(QUEUED)
           /\ call'.op = "get_job" /\ call'.id = call.id) =>
          /\ call'.job = Some(call.id)
          /\ jobs'[call.id].status = QUEUED
          /\ jobs'[call.id].progress = 0
          /\ jobs'[call.id].job_type = call.job_type
          /\ jobs'[call.id].priority = call.priority
          /\ DictEq(RequestData(jobs'[call.id]), call.request_data)
      ]_vars

\* get_job has found a job that is as enqueue_job made it, with the
\* two-member payload and priority 5
C4_Witness ==
    /\ call.op = "get_job"
    /\ call.job = Some(1)
    /\ jobs[1].status = QUEUED /\ jobs[1].progress = 0
    /\ jobs[1].priority = 5
    /\ DictEq(RequestData(jobs[1]), Doc1)

----------------------------------------------------------------------------
(* SpecProgress: progress under update_job and update_progress *)

\* progress arguments: below the range, inside it and above it
ProgressInputs == {-5, 40, 150}

\* status arguments: COMPLETED, whose branch of update_job writes progress, and
\* the two statuses a worker moves a job between (the FAILED branch writes no
\* progress; SpecStamps passes every status)
ProgressStatuses == {QUEUED, PROCESSING, COMPLETED}

PEnqueue ==
    /\ issued < FewJobs
    /\ EnqueueJob("test", Doc2, 0, QUEUED)
    /\ UNCHANGED client

PUpdate ==
    \E id \in DOMAIN jobs,
       st \in {None} \cup {Some(x) : x \in ProgressStatuses},
       pr \in {None} \cup {Some(x) : x \in ProgressInputs} :
        /\ UpdateJob(id, st, pr, None, None, None, None)
        /\ UNCHANGED client

PProgress ==
    /\ \E id \in 1..(issued + 1), pr \in ProgressInputs : UpdateProgress(id, pr, None)
    /\ UNCHANGED client

PClaim ==
    /\ GetNextJob(None, Some("worker1"))
    /\ UNCHANGED client

ProgressNext == PEnqueue \/ PUpdate \/ PProgress \/ PClaim

SpecProgress == Init /\ [][ProgressNext]_vars

\* C5: a job whose status is COMPLETED has progress 100, in the state an
\* update that sets COMPLETED leaves (whatever progress it was given) and in
\* every later state.
C5_CompletedIsFull ==
    \A j \in DOMAIN jobs : jobs[j].status = COMPLETED => jobs[j].progress = 100

\* C9: every stored job has 0 <= progress <= 100.
C9_ProgressInRange ==
    \A j \in DOMAIN jobs : 0 <= jobs[j].progress /\ jobs[j].progress <= 100

\* an update given progress 150 has left the job at 100
C9_Witness ==
    /\ call.op \in {"update_job", "update_progress"}
    /\ call.ok
    /\ call.progress = Some(150)
    /\ jobs[call.id].progress = 100

\* C10: update_progress(id, p) on a stored job returns true and leaves the
\* job's progress at 0 for p < 0, at 100 for p > 100 and at p otherwise.
C10_ProgressClamped ==
    (call.op = "update_progress" /\ call.id \in DOMAIN jobs) =>
        /\ call.ok
        /\ LET p == Get(call.progress)
           IN  jobs[call.id].progress =
                   IF p < 0 THEN 0 ELSE IF p > 100 THEN 100 ELSE p

\* update_progress given -5 has returned true and left the job at 0
C10_Witness ==
    /\ call.op = "update_progress"
    /\ call.progress = Some(-5)
    /\ call.ok
    /\ jobs[call.id].progress = 0

----------------------------------------------------------------------------
(* SpecStamps: started_at and completed_at under status changes and claims *)

SEnqueue ==
    /\ issued < FewJobs
    /\ EnqueueJob("test", Doc2, 0, QUEUED)
    /\ UNCHANGED client

SUpdate ==
    \E id \in DOMAIN jobs, st \in JobStatus :
        /\ UpdateJob(id, Some(st), None, None, None, None, None)
        /\ UNCHANGED client

SProgress ==
    /\ \E id \in DOMAIN jobs : UpdateProgress(id, 40, None)
    /\ UNCHANGED client

SClaim ==
    /\ \E w \in Workers : GetNextJob(None, Some(w))
    /\ UNCHANGED client

StampsNext == SEnqueue \/ SUpdate \/ SProgress \/ SClaim \/ Tick

SpecStamps == Init /\ [][StampsNext]_vars

\* C6: once a job has a started_at, no step changes it.
C6_StartedAtKept ==
    [][ \A j \in DOMAIN jobs :
            ~IsNone(jobs[j].started_at) =>
                j \in DOMAIN jobs' /\ jobs'[j].started_at = jobs[j].started_at
      ]_vars

\* the active sub-states
C7_ActiveSubStates ==
    {PROCESSING, LOADING_MODEL, PREPARING_PROMPT, GENERATING_AUDIO, EXPORTING,
     ANALYZING, RENDERING}

\* C7: a job in an active sub-state has a started_at.
C7_ActiveIsStarted ==
    \A j \in DOMAIN jobs :
        jobs[j].status \in C7_ActiveSubStates => ~IsNone(jobs[j].started_at)

\* C8: completed_at changes only from null, and only in a step that leaves
\* the job COMPLETED or FAILED.
C8_CompletedAtOnce ==
    [][ \A j \in DOMAIN jobs :
            (j \in DOMAIN jobs' /\ jobs'[j].completed_at # jobs[j].completed_at) =>
                /\ IsNone(jobs[j].completed_at)
                /\ jobs'[j].status \in {COMPLETED, FAILED}
      ]_vars

----------------------------------------------------------------------------
(* SpecRace: the store holds one QUEUED job and every racer calls           *)
(* get_next_job once, with its own worker_id                                *)

REnqueue ==
    /\ issued = 0
    /\ \E jt \in JobTypes, p \in {1, 10} : EnqueueJob(jt, Doc2, p, QUEUED)
    /\ UNCHANGED client

RSelect ==
    /\ issued = 1
    /\ \E w \in Racers, jts \in {None, Some(WorkerJobTypes)} : RaceSelect(w, jts)

RCommit == \E w \in Racers : RaceCommit(w)

RaceNext == REnqueue \/ RSelect \/ RCommit \/ Tick

SpecRace == Init /\ [][RaceNext]_vars

\* C1: no job is returned to two racers, and once every racer has returned,
\* the one job (of a type the racers ask for) was returned to exactly one.
C1_OneWinner ==
    /\ \A w1, w2 \in Racers :
          (w1 # w2 /\ sess[w1].pc = "returned" /\ sess[w2].pc = "returned"
             /\ ~IsNone(sess[w1].job)) => sess[w1].job # sess[w2].job
    /\ (issued = 1 /\ jobs[1].job_type = "example"
          /\ \A w \in Racers : sess[w].pc = "returned") =>
           Cardinality({w \in Racers : sess[w].job = Some(1)}) = 1

----------------------------------------------------------------------------
(* SpecFail: updates that fail a job, with and without an error string *)

\* the error arguments of update_job
FailErrors == {None, Some(""), Some("boom")}
\* the message arguments of update_job
FailMessages == {None, Some("Processing failed")}

FEnqueue ==
    /\ issued < FewJobs
    /\ EnqueueJob("test", Doc2, 0, QUEUED)
    /\ UNCHANGED client

FUpdate ==
    \E id \in DOMAIN jobs,
       st \in {None, Some(PROCESSING), Some(FAILED)},
       er \in FailErrors,
       msg \in FailMessages :
        /\ UpdateJob(id, st, None, msg, er, None, None)
        /\ UNCHANGED client

FailNext == FEnqueue \/ FUpdate \/ Tick

SpecFail == Init /\ [][FailNext]_vars

\* C11: after an update that set status FAILED and passed no error, the
\* job's stored error is the string "Unknown error".
C11_DefaultError ==
    (call.op = "update_job" /\ call.ok /\ call.status = Some(FAILED)
        /\ IsNone(call.error)) =>
        jobs[call.id].error = Some("Unknown error")

\* a job was failed without an error, at a later reading of the clock than
\* the one it was created at
C11_Witness ==
    /\ call.op = "update_job" /\ call.ok
    /\ call.status = Some(FAILED) /\ IsNone(call.error)
    /\ jobs[call.id].status = FAILED
    /\ jobs[call.id].error = Some("Unknown error")
    /\ jobs[call.id].completed_at = Some(MaxTime)
    /\ jobs[call.id].created_at < MaxTime

----------------------------------------------------------------------------
(* SpecDelete: single-job deletion through the API *)

DEnqueue ==
    /\ issued < FewJobs
    /\ EnqueueJob("test", Doc2, 0, QUEUED)
    /\ UNCHANGED client

DUpdate ==
    \E id \in DOMAIN jobs, st \in JobStatus :
        /\ UpdateJob(id, Some(st), None, None, None, None, None)
        /\ UNCHANGED client

DGet ==
    /\ \E id \in 1..(issued + 1) : get_job_status(id)
    /\ UNCHANGED client

DDelete ==
    /\ \E id \in 1..(issued + 1) : delete_job(id)
    /\ UNCHANGED client

DeleteNext == DEnqueue \/ DUpdate \/ DGet \/ DDelete

SpecDelete == Init /\ [][DeleteNext]_vars

\* C12: DELETE of a stored job in a non-terminal status (QUEUED, PENDING or
\* any active sub-state) answers 400 and leaves the table as it was; DELETE
\* of a COMPLETED job answers 200 and removes that job alone; an id once
\* removed stays removed, and a GET of it answers 404 with no job.
C12_DeleteGuard ==
    [][ /\ (call'.op = "delete_job" /\ (call' # call \/ jobs' # jobs)
              /\ call'.id \in DOMAIN jobs) =>
            LET job == jobs[call'.id]
            IN  /\ job.status \notin {COMPLETED, FAILED} =>
                      call'.http = 400 /\ jobs' = jobs
                /\ job.status = COMPLETED =>
                      /\ call'.http = 200
                      /\ DOMAIN jobs' = DOMAIN jobs \ {call'.id}
                      /\ \A k \in DOMAIN jobs' : jobs'[k] = jobs[k]
        /\ \A id \in 1..issued : id \notin DOMAIN jobs => id \notin DOMAIN jobs'
        /\ (call'.op = "get_job_status" /\ call'.id \in 1..issued
              /\ call'.id \notin DOMAIN jobs') =>
            call'.http = 404 /\ IsNone(call'.job)
      ]_vars

\* a GET has just answered 404 for a job that was deleted
C12_Witness ==
    /\ call.op = "get_job_status"
    /\ call.id \in 1..issued
    /\ call.id \notin DOMAIN jobs
    /\ call.http = 404

\* C13 as stated: DELETE of a job that is QUEUED and has no started_at
\* answers 200 and removes the job.
C13_QueuedDeletable ==
    [][ (call'.op = "delete_job" /\ (call' # call \/ jobs' # jobs)
           /\ call'.id \in DOMAIN jobs
           /\ jobs[call'.id].status = QUEUED
           /\ IsNone(jobs[call'.id].started_at)) =>
          call'.http = 200 /\ call'.id \notin DOMAIN jobs'
      ]_vars

\* C13, amended: DELETE of a job that is QUEUED and has no started_at is
\* refused like that of any other job that is not COMPLETED or FAILED: it
\* answers 400 and the job stays stored as it was.
C13_QueuedNotDeletable ==
    [][ (call'.op = "delete_job" /\ (call' # call \/ jobs' # jobs)
           /\ call'.id \in DOMAIN jobs
           /\ jobs[call'.id].status = QUEUED
           /\ IsNone(jobs[call'.id].started_at)) =>
          /\ call'.http = 400
          /\ call'.id \in DOMAIN jobs'
          /\ jobs'[call'.id] = jobs[call'.id]
      ]_vars

\* a DELETE has just been refused for a QUEUED job that was never started
C13_Witness ==
    /\ call.op = "delete_job"
    /\ call.http = 400
    /\ call.id \in DOMAIN jobs
    /\ jobs[call.id].status = QUEUED
    /\ IsNone(jobs[call.id].started_at)
    /\ IsNone(jobs[call.id].completed_at)

----------------------------------------------------------------------------
(* SpecCleanup: retention cleanup; here the clock reads in days *)

\* the days arguments of cleanup_old_jobs
CleanupDays == {0, 1}
\* the status arguments of cleanup_old_jobs
CleanupStatuses == {None, Some(QUEUED), Some(COMPLETED)}

KEnqueue ==
    /\ issued < MaxJobs
    /\ EnqueueJob("test", Doc2, 0, QUEUED)
    /\ UNCHANGED client

\* a worker starts a queued job
KStart ==
    \E id \in DOMAIN jobs :
        /\ jobs[id].status = QUEUED
        /\ UpdateJob(id, Some(PROCESSING), None, None, None, None, None)
        /\ UNCHANGED client

\* a worker finishes the job it is processing
KFinish ==
    \E id \in DOMAIN jobs, st \in {COMPLETED, FAILED} :
        /\ jobs[id].status = PROCESSING
        /\ UpdateJob(id, Some(st), None, None, None, None, None)
        /\ UNCHANGED client

KCleanup ==
    \E days \in CleanupDays, st \in CleanupStatuses :
        /\ cleanup_old_jobs(days, st)
        /\ UNCHANGED client

CleanupNext == KEnqueue \/ KStart \/ KFinish \/ KCleanup \/ Tick

SpecCleanup == Init /\ [][CleanupNext]_vars

\* the jobs a cleanup of the given age with no status filter is to delete
C14_Expired(js, days, t) ==
    {j \in DOMAIN js :
        /\ js[j].status \in {COMPLETED, FAILED}
        /\ js[j].created_at + days < t}

----------------------------------------------------------------------------
(* SpecList: listings of a table of jobs of two types *)

\* the status arguments of list_jobs
ListFilters ==
    {None, OneStatus(QUEUED), OneStatus(COMPLETED), StatusList(<<>>),
     StatusList(<<QUEUED, PROCESSING>>)}
\* the job_type arguments of list_jobs and get_job_stats
TypeFilters == {None} \cup {Some(jt) : jt \in JobTypes}
\* the limit and offset arguments of list_jobs: the defaults, and the second
\* page of pages of one row
ListPages == {<<100, 0>>, <<1, 1>>}

VEnqueue ==
    /\ issued < MaxJobs
    /\ \E jt \in JobTypes : EnqueueJob(jt, Doc2, 0, QUEUED)
    /\ UNCHANGED client

\* a worker starts a queued job
VStart ==
    \E id \in DOMAIN jobs :
        /\ jobs[id].status = QUEUED
        /\ UpdateJob(id, Some(PROCESSING), None, None, None, None, None)
        /\ UNCHANGED client

\* a worker finishes the job it is processing
VFinish ==
    \E id \in DOMAIN jobs, st \in {COMPLETED, FAILED} :
        /\ jobs[id].status = PROCESSING
        /\ UpdateJob(id, Some(st), None, None, None, None, None)
        /\ UNCHANGED client

VList ==
    \E st \in ListFilters, jt \in {None, Some("example")}, page \in ListPages,
       order_by \in {"created_at", "priority"} :
        /\ ListJobs(st, jt, page[1], page[2], order_by)
        /\ UNCHANGED client

ListNext == VEnqueue \/ VStart \/ VFinish \/ VList

SpecList == Init /\ [][ListNext]_vars

\* C16: a listing asked for one status returns only jobs in that status,
\* asked for a list of statuses only jobs whose status is in the list, and
\* asked for a job_type only jobs of that type.
C16_ListFiltered ==
    call.op = "list_jobs" =>
        \A i \in 1..Len(call.rows) :
            LET job == jobs[call.rows[i]]
            IN  /\ ~IsNone(call.filter) =>
                      \E k \in 1..Len(Get(call.filter).of) :
                          job.status = Get(call.filter).of[k]
                /\ ~IsNone(call.type_filter) => job.job_type = Get(call.type_filter)

----------------------------------------------------------------------------
(* SpecStats: statistics of a table of jobs of two types *)

TEnqueue ==
    /\ issued < MaxJobs
    /\ \E jt \in JobTypes, st \in {QUEUED, PENDING} : EnqueueJob(jt, Doc2, 0, st)
    /\ UNCHANGED client

TUpdate ==
    \E id \in DOMAIN jobs, st \in {PROCESSING, RENDERING, COMPLETED, FAILED} :
        /\ jobs[id].status \notin {COMPLETED, FAILED}
        /\ UpdateJob(id, Some(st), None, None, None, None, None)
        /\ UNCHANGED client

TStats ==
    \E jt \in TypeFilters :
        /\ GetJobStats(jt)
        /\ UNCHANGED client

StatsNext == TEnqueue \/ TUpdate \/ TStats

SpecStats == Init /\ [][StatsNext]_vars

\* the jobs a statistics call with this job_type filter is about
C17_Matching(job_type) ==
    {j \in DOMAIN jobs : IsNone(job_type) \/ jobs[j].job_type = Get(job_type)}

\* C17: the statistics returned for a job_type filter give, for each status,
\* the number of matching jobs in that status; total is the number of
\* matching jobs; active is the number of matching jobs that are neither
\* COMPLETED nor FAILED; and total = active + completed + failed.
C17_StatsCount ==
    call.op = "get_job_stats" =>
        LET matching == C17_Matching(call.type_filter)
        IN  /\ \A st \in JobStatus :
                  call.stats[st] = Cardinality({j \in matching : jobs[j].status = st})
            /\ call.stats["total"] = Cardinality(matching)
            /\ call.stats["active"] =
                  Cardinality({j \in matching : jobs[j].status \notin {COMPLETED, FAILED}})
            /\ call.stats["total"] =
                  call.stats["active"] + call.stats[COMPLETED] + call.stats[FAILED]

\* statistics for one job type, with a queued job of that type, a completed
\* job, and fewer jobs of the type than jobs stored
C17_Witness ==
    /\ call.op = "get_job_stats"
    /\ ~IsNone(call.type_filter)
    /\ call.stats["active"] = 1
    /\ call.stats[QUEUED] = 1
    /\ call.stats["total"] = 1
    /\ Cardinality(DOMAIN jobs) = 2
    /\ \E j \in DOMAIN jobs : jobs[j].status = COMPLETED

----------------------------------------------------------------------------
(* SpecLifecycle: one caller takes one job from enqueue to COMPLETED *)

\* the progress values the caller reports, in order
ProgressPlans == {<<25, 75>>, <<25, 50, 75>>, <<25, 50, 75, 100>>}

LEnqueue ==
    /\ client.pc = "start"
    /\ \E jt \in JobTypes, plan \in ProgressPlans :
          /\ EnqueueJob(jt, Doc2, 0, QUEUED)
          /\ client' = [client EXCEPT !.pc = "enqueued", !.id = issued + 1,
                                      !.todo = plan]

LStart ==
    /\ client.pc = "enqueued"
    /\ UpdateJob(client.id, Some(PROCESSING), None, Some("Starting work"),
                 None, None, None)
    /\ client' = [client EXCEPT !.pc = "processing"]

LProgress ==
    /\ client.pc = "processing"
    /\ client.todo # <<>>
    /\ UpdateProgress(client.id, Head(client.todo), Some("Working..."))
    /\ client' = [client EXCEPT !.todo = Tail(@),
                                !.done = Append(@, Head(client.todo))]

LComplete ==
    /\ client.pc = "processing"
    /\ client.todo = <<>>
    /\ \E r \in {Doc3, Doc4} :
          /\ UpdateJob(client.id, Some(COMPLETED), None, None, None, Some(r), None)
          /\ client' = [client EXCEPT !.pc = "completed", !.result = Some(r)]

LGet ==
    /\ client.pc = "completed"
    /\ GetJob(client.id)
    /\ client' = [client EXCEPT !.pc = "seen completed"]

LifecycleNext == LEnqueue \/ LStart \/ LProgress \/ LComplete \/ LGet \/ Tick

SpecLifecycle == Init /\ [][LifecycleNext]_vars

\* C18: when the caller has enqueued a job, updated it to PROCESSING,
\* reported progress 25 and then 75, updated it to COMPLETED with a
\* result_data and got the job, the job it got is COMPLETED with progress 100,
\* that result_data, a completed_at and a started_at.
C18_Lifecycle ==
    (client.pc = "seen completed" /\ client.done = <<25, 75>>) =>
        /\ call.op = "get_job"
        /\ call.job = Some(client.id)
        /\ jobs[client.id].status = COMPLETED
        /\ jobs[client.id].progress = 100
        /\ ~IsNone(ResultData(jobs[client.id]))
        /\ DictEq(Get(ResultData(jobs[client.id])), Get(client.result))
        /\ ~IsNone(jobs[client.id].completed_at)
        /\ ~IsNone(jobs[client.id].started_at)

\* the caller has got the job after the five calls, having started it at one
\* reading of the clock and completed it with a result at a later one
C18_Witness ==
    /\ client.pc = "seen completed"
    /\ client.done = <<25, 75>>
    /\ client.result = Some(Doc4)
    /\ call.op = "get_job"
    /\ jobs[client.id].started_at = Some(0)
    /\ jobs[client.id].completed_at = Some(MaxTime)

----------------------------------------------------------------------------
(* SpecFailure: one caller enqueues a job and fails it *)

XEnqueue ==
    /\ client.pc = "start"
    /\ \E jt \in JobTypes, rd \in {Doc1, Doc2} :
          /\ EnqueueJob(jt, rd, 0, QUEUED)
          /\ client' = [client EXCEPT !.pc = "enqueued", !.id = issued + 1]

XFail ==
    /\ client.pc = "enqueued"
    /\ \E er \in FailErrors \ {None}, msg \in FailMessages :
          /\ UpdateJob(client.id, Some(FAILED), None, msg, er, None, None)
          /\ client' = [client EXCEPT !.pc = "failed", !.error = er,
                                      !.message = msg]

XGet ==
    /\ client.pc = "failed"
    /\ GetJob(client.id)
    /\ client' = [client EXCEPT !.pc = "seen failed"]

FailureNext == XEnqueue \/ XFail \/ XGet \/ Tick

SpecFailure == Init /\ [][FailureNext]_vars

\* C19: when the caller has enqueued a job, updated it to FAILED with an
\* error (and perhaps a message) and got the job, the job it got is FAILED
\* with that error, that message if one was passed, and a completed_at;
\* is_finished is true of it and is_active false.
C19_Failure ==
    client.pc = "seen failed" =>
        /\ call.op = "get_job"
        /\ call.job = Some(client.id)
        /\ jobs[client.id].status = FAILED
        /\ jobs[client.id].error = client.error
        /\ ~IsNone(client.message) => jobs[client.id].message = client.message
        /\ ~IsNone(jobs[client.id].completed_at)
        /\ is_finished(jobs[client.id])
        /\ ~is_active(jobs[client.id])

\* the caller has got the job it failed with the error "boom" and a message,
\* at a later reading of the clock than the job was created at
C19_Witness ==
    /\ client.pc = "seen failed"
    /\ client.error = Some("boom")
    /\ client.message = Some("Processing failed")
    /\ call.op = "get_job"
    /\ jobs[client.id].created_at = 0
    /\ jobs[client.id].completed_at = Some(MaxTime)

----------------------------------------------------------------------------
(* SpecMissing: calls that name a job that is not stored, because its id   *)
(* was never issued or because the job was deleted                         *)

MEnqueue ==
    /\ issued < FewJobs
    /\ EnqueueJob("test", Doc2, 0, QUEUED)
    /\ UNCHANGED client

MGet ==
    /\ \E id \in 1..(issued + 1) : GetJob(id)
    /\ UNCHANGED client

MUpdate ==
    \E id \in 1..(issued + 1), st \in {None, Some(PROCESSING), Some(COMPLETED)},
       pr \in {None, Some(40)} :
        /\ UpdateJob(id, st, pr, None, None, None, None)
        /\ UNCHANGED client

MProgress ==
    /\ \E id \in 1..(issued + 1) : UpdateProgress(id, 25, Some("Processing..."))
    /\ UNCHANGED client

MDelete ==
    /\ \E id \in DOMAIN jobs : delete_job(id)
    /\ UNCHANGED client

MissingNext == MEnqueue \/ MGet \/ MUpdate \/ MProgress \/ MDelete

SpecMissing == Init /\ [][MissingNext]_vars

\* C20: a get_job, update_job or update_progress call that names an id under
\* which no job is stored leaves the table as it was; get_job returns null,
\* update_job and update_progress return false.
C20_NotFound ==
    [][ (call'.op \in {"get_job", "update_job", "update_progress"}
           /\ (call' # call \/ jobs' # jobs)
           /\ call'.id \notin DOMAIN jobs) =>
          /\ jobs' = jobs
          /\ call'.op = "get_job" => IsNone(call'.job)
          /\ call'.op # "get_job" => call'.ok = FALSE
      ]_vars

\* update_progress has returned false for the id of a job that was deleted
C20_Witness ==
    /\ call.op = "update_progress"
    /\ call.ok = FALSE
    /\ call.id \in 1..issued
    /\ call.id \notin DOMAIN jobs

----------------------------------------------------------------------------
(* Requests to the HTTP API: POST "" and PUT /{job_id}                      *)

\* status strings a request body may carry
StatusStrings == {QUEUED, COMPLETED, "invalid_status", ""}
\* priorities a request body may carry
ApiPriorities == {0, 5, 101}
\* progress values a caller may send (test_update_job_progress_invalid_range
\* sends 150 and -10)
ApiProgress == {-10, 50, 150}

ACreate ==
    /\ issued < MaxJobs
    /\ \E priority \in ApiPriorities, status \in StatusStrings :
          create_job("example", Doc1, priority, status)
    /\ UNCHANGED client

APut ==
    \E job_id \in 1..(issued + 1),
       status \in {None} \cup {Some(s) : s \in StatusStrings},
       progress \in {None, Some(40)} :
       /\ update_job(job_id, status, progress, None, None, None)
       /\ UNCHANGED client

ApiNext == ACreate \/ APut

SpecApi == Init /\ [][ApiNext]_vars

\* C21: a create or update request whose status string is not a known status
\* value is answered with 400 and changes nothing: no job is created and no
\* field of a job changes. (Create requests are taken with a priority the
\* body accepts, update requests with the id of a stored job.)
C21_InvalidStatus ==
    [][ /\ (call' # call \/ jobs' # jobs)
        /\ \/ call'.op = "create_job" /\ call'.priority \in 0..100
           \/ call'.op = "PUT update_job" /\ call'.id \in DOMAIN jobs
        /\ ~IsNone(call'.status)
        /\ Get(call'.status) \notin JobStatus
        => /\ call'.http = HTTP_400_BAD_REQUEST
           /\ jobs' = jobs
           /\ issued' = issued ]_vars

\* C39: every stored job that is COMPLETED or FAILED has a completed_at.
C39_TerminalHasCompletedAt ==
    \A id \in DOMAIN jobs :
        jobs[id].status \in {COMPLETED, FAILED} => ~IsNone(jobs[id].completed_at)

----------------------------------------------------------------------------
(* Progress reports through the API's POST /{job_id}/progress and through   *)
(* the service's update_progress                                            *)

RCreate ==
    /\ issued < FewJobs
    /\ create_job("example", Doc1, 0, QUEUED)
    /\ UNCHANGED client

RPut ==
    \E job_id \in DOMAIN jobs, status \in {None, Some(PROCESSING)},
       progress \in {None, Some(40)} :
       /\ update_job(job_id, status, progress, None, None, None)
       /\ UNCHANGED client

RProgress ==
    \E job_id \in 1..(issued + 1), progress \in ApiProgress,
       message \in {None, Some("Working")} :
       /\ update_job_progress(job_id, progress, message)
       /\ UNCHANGED client

RServiceProgress ==
    \E job_id \in 1..(issued + 1), progress \in ApiProgress,
       message \in {None, Some("Working")} :
       /\ UpdateProgress(job_id, progress, message)
       /\ UNCHANGED client

ReportNext == RCreate \/ RPut \/ RProgress \/ RServiceProgress

SpecReport == Init /\ [][ReportNext]_vars

\* C22: POST /{job_id}/progress answers a progress outside 0..100 for a stored
\* job with 422 and leaves the job, its progress and message included, as it
\* was; the service's update_progress given the same value returns True and
\* stores the value clamped into 0..100.
C22_StrictAndLenient ==
    [][ /\ (call' # call \/ jobs' # jobs)
        /\ call'.op \in {"update_job_progress", "update_progress"}
        /\ call'.id \in DOMAIN jobs
        /\ Get(call'.progress) \notin 0..100
        => IF call'.op = "update_job_progress"
           THEN /\ call'.http = HTTP_422_UNPROCESSABLE_ENTITY
                /\ jobs'[call'.id].progress = jobs[call'.id].progress
                /\ jobs'[call'.id].message = jobs[call'.id].message
                /\ jobs' = jobs
           ELSE /\ call'.ok
                /\ jobs'[call'.id].progress =
                      (IF Get(call'.progress) < 0 THEN 0 ELSE 100)
                /\ DOMAIN jobs' = DOMAIN jobs ]_vars

\* the API has answered 422 to progress 150 for a queued job whose stored
\* progress is the 100 that update_progress made of a value above 100
C22_Witness ==
    /\ call.op = "update_job_progress"
    /\ call.http = HTTP_422_UNPROCESSABLE_ENTITY
    /\ call.progress = Some(150)
    /\ call.id \in DOMAIN jobs
    /\ jobs[call.id].status = QUEUED
    /\ jobs[call.id].progress = 100

----------------------------------------------------------------------------
(* GET requests to the job API, with jobs created and moved on through the  *)
(* API as test_get_job_stats does                                           *)

\* the paths requested: the listing, the statistics, the statistics of one
\* job type, and the job of every id in use
GetPaths ==
    {<<>>, <<"stats">>, <<"stats", "example">>}
        \cup {<<JobIdText[k]>> : k \in 1..MaxJobs}

GCreate ==
    /\ issued < MaxJobs
    /\ \E jt \in JobTypes : create_job(jt, Doc1, 0, QUEUED)
    /\ UNCHANGED client

GPut ==
    \E job_id \in DOMAIN jobs, status \in {PROCESSING, COMPLETED, FAILED} :
       /\ update_job(job_id, Some(status), None, None, None, None)
       /\ UNCHANGED client

GGet ==
    \E path \in GetPaths :
       /\ HttpGet(path)
       /\ UNCHANGED client

RoutesNext == GCreate \/ GPut \/ GGet

SpecRoutes == Init /\ [][RoutesNext]_vars

\* C23: a GET request for the path /stats is dispatched to the statistics
\* handler and answered 200 with the per-status counts, total and active of
\* all jobs; it is never answered as the lookup of a job with the id "stats".
C23_StatsRoute ==
    (call.op = "GET" /\ call.path = <<"stats">>) =>
        /\ call.handler = "get_job_stats"
        /\ call.http = HTTP_200_OK
        /\ call.stats = Stats(jobs, None)

----------------------------------------------------------------------------
(* The fields of a stored job under every operation of the service: jobs    *)
(* are enqueued, updated with any of update_job's arguments, claimed,       *)
(* counted, listed and cleaned up                                           *)

\* the error and result_data arguments of update_job: neither, an error, a result
FieldOutcomes == {<<None, None>>, <<Some("boom"), None>>, <<None, Some(Doc3)>>}

\* one job is stored at a time: the next is enqueued once cleanup has
\* removed the one before
IEnqueue ==
    /\ issued < MaxJobs
    /\ DOMAIN jobs = {}
    /\ EnqueueJob("example", Doc1, 5, QUEUED)
    /\ UNCHANGED client

IUpdate ==
    \E id \in DOMAIN jobs, st \in {None, Some(COMPLETED), Some(FAILED)},
       outcome \in FieldOutcomes :
        /\ UpdateJob(id, st, None, None, outcome[1], outcome[2], None)
        /\ UNCHANGED client

IProgress ==
    \E id \in DOMAIN jobs :
        /\ UpdateProgress(id, 50, Some("Working"))
        /\ UNCHANGED client

IClaim ==
    /\ GetNextJob(Some(WorkerJobTypes), Some("worker1"))
    /\ UNCHANGED client

IStats ==
    /\ GetJobStats(None)
    /\ UNCHANGED client

IList ==
    /\ ListJobs(None, None, 100, 0, "created_at")
    /\ UNCHANGED client

ICleanup ==
    /\ cleanup_old_jobs(0, None)
    /\ UNCHANGED client

FieldsNext == IEnqueue \/ IUpdate \/ IProgress \/ IClaim \/ IStats \/ IList \/ ICleanup \/ Tick

SpecFields == Init /\ [][FieldsNext]_vars

\* C24: the id, job_type, priority and request_data of a job are fixed at
\* creation: no update, update_progress, claim, stats, list or cleanup call
\* changes any of the four in a job that stays stored.
C24_Immutable ==
    [][ \A id \in DOMAIN jobs \cap DOMAIN jobs' :
           /\ jobs'[id].job_type = jobs[id].job_type
           /\ jobs'[id].priority = jobs[id].priority
           /\ jobs'[id].request_data = jobs[id].request_data ]_vars

\* a job with its creation priority 5 that has been claimed, reported on and
\* given an error, and has just survived a cleanup call
C24_Witness ==
    /\ call.op = "cleanup_old_jobs"
    /\ \E id \in DOMAIN jobs :
          /\ jobs[id].priority = 5
          /\ ~IsNone(jobs[id].worker_id)
          /\ jobs[id].progress = 50
          /\ ~IsNone(jobs[id].error)

\* C25: in every reachable state a job whose status is not FAILED has a null
\* error.
C25_ErrorOnlyOnFailure ==
    \A id \in DOMAIN jobs : jobs[id].status # FAILED => IsNone(jobs[id].error)

\* C26: in every reachable state a job whose status is not COMPLETED has a
\* null result_data.
C26_ResultOnlyOnCompletion ==
    \A id \in DOMAIN jobs : jobs[id].status # COMPLETED => IsNone(jobs[id].result_data)

----------------------------------------------------------------------------
(* The tasks that process jobs: the per-job background task of              *)
(* python/demo_job_queue.py (process_demo_job) and the polling loop of      *)
(* python/app/workers/example_worker.py (ExampleWorker). `client` is the    *)
(* task: its pc is the place it has reached, id the job it works on, todo   *)
(* the steps it has left, error the text of the exception it has caught.    *)
(* Every call to the service may raise a storage error instead of           *)
(* returning; a call that raises has committed nothing. The worker's        *)
(* service is one built on a session (SpecWorkers has the other kind).      *)

StorageError == "database is locked"

\* a call of the service's method op raising the storage error
Raise(op, job_id) ==
    /\ call' = [NoCall EXCEPT !.op = op, !.id = job_id, !.raised = Some(StorageError)]
    /\ UNCHANGED <<jobs, issued, now, sess>>

\* f"Demo generation failed: {e}" and f"Processing failed: {e}"
DemoFailed(e) ==
    IF e = StorageError THEN "Demo generation failed: database is locked"
    ELSE "Demo generation failed: "
ProcessingFailed(e) ==
    IF e = StorageError THEN "Processing failed: database is locked"
    ELSE "Processing failed: "

DemoSteps ==
    << <<10, "Loading demo model...">>, <<25, "Processing prompt...">>,
       <<50, "Generating content...">>, <<75, "Post-processing...">>,
       <<90, "Finalizing...">> >>
WorkerSteps ==
    << <<10, "Initializing...">>, <<25, "Loading resources...">>,
       <<50, "Processing data...">>, <<75, "Finalizing...">>,
       <<100, "Completed">> >>

\* the "output" entry of the result documents the tasks store
DemoResult == <<<<"output", Str("demo_output.txt")>>>>
WorkerResult == <<<<"output", Str("Processed by worker1")>>>>

\* POST /demo/generate: enqueues the job and adds the background task
BGenerate ==
    /\ client.pc = "start"
    /\ issued < FewJobs
    /\ EnqueueJob("demo_generation", Doc1, 5, QUEUED)
    /\ client' = [NoClient EXCEPT !.task = "process_demo_job", !.pc = "starting",
                                  !.id = issued + 1, !.todo = DemoSteps]

\* process_demo_job: update_job(status=PROCESSING, ...)
BStart ==
    /\ client.task = "process_demo_job"
    /\ client.pc = "starting"
    /\ \/ /\ UpdateJob(client.id, Some(PROCESSING), None,
                       Some("Starting demo generation..."), None, None, None)
          /\ client' = [client EXCEPT !.pc = "stepping"]
       \/ /\ Raise("update_job", client.id)
          /\ client' = [client EXCEPT !.pc = "except", !.error = Some(StorageError)]

\* process_demo_job: one turn of the loop over the steps
BStep ==
    /\ client.task = "process_demo_job"
    /\ client.pc = "stepping"
    /\ \/ /\ UpdateProgress(client.id, Head(client.todo)[1], Some(Head(client.todo)[2]))
          /\ client' = [client EXCEPT !.todo = Tail(@),
                                      !.pc = IF Tail(client.todo) = <<>>
                                             THEN "completing" ELSE "stepping"]
       \/ /\ Raise("update_progress", client.id)
          /\ client' = [client EXCEPT !.pc = "except", !.error = Some(StorageError)]

\* process_demo_job: update_job(status=COMPLETED, result_data=..., ...)
BComplete ==
    /\ client.task = "process_demo_job"
    /\ client.pc = "completing"
    /\ \/ /\ UpdateJob(client.id, Some(COMPLETED), None,
                       Some("Demo generation completed successfully"), None,
                       Some(DemoResult), None)
          /\ client' = [client EXCEPT !.pc = "returned", !.result = Some(DemoResult)]
       \/ /\ Raise("update_job", client.id)
          /\ client' = [client EXCEPT !.pc = "except", !.error = Some(StorageError)]

\* process_demo_job: the except block; an exception raised in it leaves the task
BFail ==
    /\ client.task = "process_demo_job"
    /\ client.pc = "except"
    /\ \/ /\ UpdateJob(client.id, Some(FAILED), None,
                       Some(DemoFailed(Get(client.error))), client.error, None, None)
          /\ client' = [client EXCEPT !.pc = "returned"]
       \/ /\ Raise("update_job", client.id)
          /\ client' = [client EXCEPT !.pc = "crashed"]

\* a job for the worker is enqueued
WEnqueue ==
    /\ client.task # "process_demo_job"
    /\ issued < FewJobs
    /\ EnqueueJob("example", Doc2, 0, QUEUED)
    /\ UNCHANGED client

\* ExampleWorker.start: self.running = True, and the loop is entered
WRun ==
    /\ client.pc = "start"
    /\ client' = [NoClient EXCEPT !.task = "ExampleWorker", !.pc = "poll",
                                  !.running = TRUE]
    /\ UNCHANGED <<jobs, issued, now, call, sess>>

\* ExampleWorker.stop
WStop ==
    /\ client.task = "ExampleWorker"
    /\ client.running
    /\ client' = [client EXCEPT !.running = FALSE]
    /\ UNCHANGED <<jobs, issued, now, call, sess>>

\* ExampleWorker.start: one turn of the loop up to the call of process_job;
\* the loop's except block catches what get_next_job raises
WPoll ==
    /\ client.task = "ExampleWorker"
    /\ client.pc = "poll"
    /\ IF ~client.running
       THEN /\ client' = [client EXCEPT !.pc = "stopped"]
            /\ UNCHANGED <<jobs, issued, now, call, sess>>
       ELSE \/ /\ GetNextJob(Some(WorkerJobTypes), Some("worker1"))
               /\ client' = IF IsNone(call'.job) THEN client
                            ELSE [client EXCEPT !.pc = "stepping",
                                                !.id = Get(call'.job),
                                                !.todo = WorkerSteps,
                                                !.error = None]
            \/ /\ Raise("get_next_job", 0)
               /\ UNCHANGED client

\* process_job: one turn of the loop over the steps; a stopped worker
\* requeues the job and returns
WStep ==
    /\ client.task = "ExampleWorker"
    /\ client.pc = "stepping"
    /\ IF ~client.running
       THEN \/ /\ UpdateJob(client.id, Some(QUEUED), None,
                            Some("Worker stopped, job requeued"), None, None, None)
               /\ client' = [client EXCEPT !.pc = "poll"]
            \/ /\ Raise("update_job", client.id)
               /\ client' = [client EXCEPT !.pc = "except", !.error = Some(StorageError)]
       ELSE \/ /\ UpdateProgress(client.id, Head(client.todo)[1],
                                 Some(Head(client.todo)[2]))
               /\ client' = [client EXCEPT !.todo = Tail(@),
                                           !.pc = IF Tail(client.todo) = <<>>
                                                  THEN "completing" ELSE "stepping"]
            \/ /\ Raise("update_progress", client.id)
               /\ client' = [client EXCEPT !.pc = "except", !.error = Some(StorageError)]

\* process_job: update_job(status=COMPLETED, result_data=...)
WComplete ==
    /\ client.task = "ExampleWorker"
    /\ client.pc = "completing"
    /\ \/ /\ UpdateJob(client.id, Some(COMPLETED), None, None, None,
                       Some(WorkerResult), None)
          /\ client' = [client EXCEPT !.pc = "poll", !.result = Some(WorkerResult)]
       \/ /\ Raise("update_job", client.id)
          /\ client' = [client EXCEPT !.pc = "except", !.error = Some(StorageError)]

\* process_job: the except block; an exception raised in it is caught by the
\* except block of the loop in start, which goes on polling
WFail ==
    /\ client.task = "ExampleWorker"
    /\ client.pc = "except"
    /\ \/ /\ UpdateJob(client.id, Some(FAILED), None,
                       Some(ProcessingFailed(Get(client.error))), client.error,
                       None, None)
          /\ client' = [client EXCEPT !.pc = "poll"]
       \/ /\ Raise("update_job", client.id)
          /\ client' = [client EXCEPT !.pc = "poll"]

TasksNext ==
    \/ BGenerate \/ BStart \/ BStep \/ BComplete \/ BFail
    \/ WEnqueue \/ WRun \/ WStop \/ WPoll \/ WStep \/ WComplete \/ WFail
    \/ Tick

SpecTasks == Init /\ [][TasksNext]_vars

\* C27: no task crashes, also when the call that marks the job FAILED raises
\* a storage error; and once a task has caught an exception while processing
\* a job and is through with that job, the job is FAILED with the exception's
\* text as its error.
C27_NeverStuckNeverCrashed ==
    /\ client.pc # "crashed"
    /\ (client.pc \in {"returned", "poll", "stopped"} /\ ~IsNone(client.error)) =>
           /\ jobs[client.id].status = FAILED
           /\ jobs[client.id].error = client.error

\* C37: a worker that was stopped and has left its loop has left no job in
\* PROCESSING: the job it took last is QUEUED again with the requeue message,
\* or COMPLETED, or FAILED.
C37_StoppedLeavesNoneProcessing ==
    (client.task = "ExampleWorker" /\ client.pc = "stopped" /\ client.id \in DOMAIN jobs) =>
        \/ /\ jobs[client.id].status = QUEUED
           /\ jobs[client.id].message = Some("Worker stopped, job requeued")
        \/ jobs[client.id].status \in {COMPLETED, FAILED}

----------------------------------------------------------------------------
(* SpecStale: get_next_job calls in sessions of their own, while another    *)
(* caller finishes jobs with update_job                                     *)

OEnqueue ==
    /\ issued < FewJobs
    /\ EnqueueJob("example", Doc2, 0, QUEUED)
    /\ UNCHANGED client

OSelect == \E w \in Racers : RaceSelect(w, Some(WorkerJobTypes))

OCommit == \E w \in Racers : RaceCommit(w)

OFinish ==
    \E id \in DOMAIN jobs, st \in {COMPLETED, FAILED} :
        /\ jobs[id].status \notin {COMPLETED, FAILED}
        /\ UpdateJob(id, Some(st), None, None, None, None, None)
        /\ UNCHANGED client

StaleNext == OEnqueue \/ OSelect \/ OCommit \/ OFinish \/ Tick

SpecStale == Init /\ [][StaleNext]_vars

\* C28: when another caller's update has moved the job a get_next_job call
\* selected to COMPLETED or FAILED before that call commits, the commit does
\* not overwrite the terminal status with PROCESSING.
C28_CommitKeepsTerminal ==
    [][ \A w \in Racers :
           (/\ sess[w].pc = "selected"
            /\ sess'[w].pc = "returned"
            /\ ~IsNone(sess[w].job)
            /\ jobs[Get(sess[w].job)].status \in {COMPLETED, FAILED})
           => jobs'[Get(sess[w].job)].status = jobs[Get(sess[w].job)].status ]_vars

----------------------------------------------------------------------------
(* SpecPeek: get_next_job with and without a worker_id, with and without    *)
(* job types, over jobs of two types and two priorities                     *)

\* the job_types arguments of get_next_job: none, an empty list, the list of
\* an ExampleWorker
PeekTypes == {None, Some(<<>>), Some(WorkerJobTypes)}

NEnqueue ==
    /\ issued < MaxJobs
    /\ \E jt \in JobTypes, p \in {1, 10}, st \in {QUEUED, PENDING} :
           EnqueueJob(jt, Doc2, p, st)
    /\ UNCHANGED client

NPeek ==
    \E jts \in PeekTypes, w \in {None, Some("")} :
        /\ GetNextJob(jts, w)
        /\ UNCHANGED client

NClaim ==
    \E jts \in PeekTypes :
        /\ GetNextJob(jts, Some("worker1"))
        /\ UNCHANGED client

\* the worker moves the job it holds on
NUpdate ==
    \E id \in DOMAIN jobs, st \in {RENDERING, COMPLETED, FAILED} :
        /\ jobs[id].status = PROCESSING
        /\ UpdateJob(id, Some(st), None, None, None, None, None)
        /\ UNCHANGED client

PeekNext == NEnqueue \/ NPeek \/ NClaim \/ NUpdate

SpecPeek == Init /\ [][PeekNext]_vars

\* a call of get_next_job that passed no worker_id (none, or an empty one)
C29_IsPeek(c) == c.op = "get_next_job" /\ ~TruthyStr(c.worker)

\* no job the call may be given comes before job j in get_next_job's order
C29_ComesFirst(js, job_types, j) ==
    /\ j \in C3_Eligible(js, job_types)
    /\ \A k \in C3_Eligible(js, job_types) :
          /\ js[k].priority <= js[j].priority
          /\ js[k].priority = js[j].priority => js[j].created_at <= js[k].created_at

C30_OnlyEligible ==
    [][ (call'.op = "get_next_job" /\ ~IsNone(call'.job)
           /\ (call' # call \/ jobs' # jobs)) =>
          LET j == Get(call'.job)
          IN  /\ j \in DOMAIN jobs
              /\ jobs[j].status \in {QUEUED, PENDING}
              /\ ~IsNone(call'.job_types) =>
                    \E i \in 1..Len(Get(call'.job_types)) :
                        Get(call'.job_types)[i] = jobs[j].job_type
      ]_vars

----------------------------------------------------------------------------
(* SpecSoft: update_job with any status, with and without a worker_id or an *)
(* error, on jobs in any status, and claims in between                      *)

\* the worker_id and error arguments of update_job: neither, a worker_id, an
\* empty error, an error
SoftExtras == {<<None, None>>, <<Some("worker1"), None>>,
               <<None, Some("")>>, <<None, Some("boom")>>}

UEnqueue ==
    /\ issued < FewJobs
    /\ EnqueueJob("example", Doc2, 0, QUEUED)
    /\ UNCHANGED client

UUpdate ==
    \E id \in DOMAIN jobs,
       st \in {None, Some(QUEUED), Some(PROCESSING), Some(COMPLETED), Some(FAILED)},
       extra \in SoftExtras :
        /\ UpdateJob(id, st, None, None, extra[2], None, extra[1])
        /\ UNCHANGED client

UClaim ==
    /\ GetNextJob(Some(WorkerJobTypes), Some("worker2"))
    /\ UNCHANGED client

SoftNext == UEnqueue \/ UUpdate \/ UClaim

SpecSoft == Init /\ [][SoftNext]_vars

\* C31: an update_job call that passes no worker_id leaves the worker_id
\* recorded on the job as it was.
C31_WorkerKept ==
    [][ (call'.op = "update_job" /\ call'.ok /\ IsNone(call'.worker)
           /\ (call' # call \/ jobs' # jobs)) =>
          jobs'[call'.id].worker_id = jobs[call'.id].worker_id ]_vars

\* C33: after an update that sets status FAILED the stored error is a
\* non-empty string: the error the caller passed, or "Unknown error" when the
\* caller passed none or an empty one.
C33_ErrorNonEmpty ==
    [][ (call'.op = "update_job" /\ call'.ok /\ call'.status = Some(FAILED)
           /\ (call' # call \/ jobs' # jobs)) =>
          /\ TruthyStr(jobs'[call'.id].error)
          /\ jobs'[call'.id].error =
                (IF TruthyStr(call'.error) THEN call'.error ELSE Some("Unknown error"))
      ]_vars

\* C35: an update_job call on a job that is COMPLETED or FAILED returns True
\* and is applied, whatever status it sets (FAILED on a COMPLETED job, QUEUED
\* or PROCESSING on a finished one); a finished job moved back to QUEUED
\* waits like any other: the next claim hands out a job, that one when no
\* other job is waiting, and the job handed out is PROCESSING again.
C35_TerminalSoft ==
    [][ /\ (call'.op = "update_job" /\ call'.id \in DOMAIN jobs
              /\ jobs[call'.id].status \in {COMPLETED, FAILED}
              /\ (call' # call \/ jobs' # jobs)) =>
             /\ call'.ok
             /\ ~IsNone(call'.status) => jobs'[call'.id].status = Get(call'.status)
        /\ LET waiting == {j \in DOMAIN jobs : jobs[j].status \in {QUEUED, PENDING}}
               back == {j \in waiting : ~IsNone(jobs[j].completed_at)}
           IN  (call'.op = "get_next_job" /\ (call' # call \/ jobs' # jobs)
                  /\ back # {}) =>
                 /\ ~IsNone(call'.job)
                 /\ waiting = back => Get(call'.job) \in back
                 /\ jobs'[Get(call'.job)].status = PROCESSING
                 /\ jobs'[Get(call'.job)].worker_id = call'.worker
      ]_vars

\* a job that was finished (it has a completed_at and an error) has been put
\* back and has just been claimed again by worker2
C35_Witness ==
    /\ call.op = "get_next_job"
    /\ ~IsNone(call.job)
    /\ jobs[Get(call.job)].status = PROCESSING
    /\ jobs[Get(call.job)].worker_id = Some("worker2")
    /\ ~IsNone(jobs[Get(call.job)].completed_at)
    /\ jobs[Get(call.job)].error = Some("boom")

----------------------------------------------------------------------------
(* SpecFrame: what update_progress writes, among several stored jobs *)

\* the reports made: progress values inside 0..100 and below the 100 of a
\* completed job, with and without a message
FrameReports == {<<30, None>>, <<80, Some("half")>>}

HEnqueue ==
    /\ issued < MaxJobs
    /\ EnqueueJob("test", Doc2, 0, QUEUED)
    /\ UNCHANGED client

HClaim ==
    /\ GetNextJob(None, Some("worker1"))
    /\ UNCHANGED client

HFinish ==
    /\ \E id \in DOMAIN jobs :
          \/ UpdateJob(id, Some(COMPLETED), None, None, None, Some(Doc3), None)
          \/ UpdateJob(id, Some(FAILED), None, None, Some("boom"), None, None)
    /\ UNCHANGED client

HProgress ==
    /\ \E id \in 1..MaxJobs, report \in FrameReports :
          UpdateProgress(id, report[1], report[2])
    /\ UNCHANGED client

FrameNext == HEnqueue \/ HClaim \/ HFinish \/ HProgress

SpecFrame == Init /\ [][FrameNext]_vars

\* C32: a call of update_progress leaves the set of stored jobs as it was,
\* every other job exactly as it was, and the named job as it was but for its
\* progress and its message (updated_at, the third field it may touch, is not
\* part of the model's row).
C32_ProgressFrame ==
    [][ (call'.op = "update_progress" /\ (call' # call \/ jobs' # jobs)) =>
          /\ DOMAIN jobs' = DOMAIN jobs
          /\ \A j \in DOMAIN jobs :
                IF j = call'.id
                THEN jobs'[j] = [jobs[j] EXCEPT !.progress = jobs'[j].progress,
                                                !.message = jobs'[j].message]
                ELSE jobs'[j] = jobs[j]
      ]_vars

\* update_progress(1, 80, "half") has written a failed job that a worker had
\* claimed, next to a completed one: status, error, worker and stamps are still
\* there, and the other job is complete
C32_Witness ==
    /\ call.op = "update_progress"
    /\ call.id = 1
    /\ call.ok
    /\ DOMAIN jobs = {1, 2}
    /\ jobs[1].status = FAILED
    /\ jobs[1].error = Some("boom")
    /\ jobs[1].worker_id = Some("worker1")
    /\ ~IsNone(jobs[1].started_at)
    /\ ~IsNone(jobs[1].completed_at)
    /\ jobs[1].progress = 80
    /\ jobs[1].message = Some("half")
    /\ jobs[2].status = COMPLETED
    /\ jobs[2].progress = 100
    /\ ~IsNone(jobs[2].result_data)

\* C34: update_progress with a value in 0..100 below the progress the job
\* has is accepted: it returns True and the job's progress is the value given,
\* lower than it was.
C34_ProgressMayDecrease ==
    [][ (/\ call'.op = "update_progress"
         /\ (call' # call \/ jobs' # jobs)
         /\ call'.id \in DOMAIN jobs
         /\ Get(call'.progress) \in 0..100
         /\ Get(call'.progress) < jobs[call'.id].progress) =>
          /\ call'.ok
          /\ jobs'[call'.id].progress = Get(call'.progress)
          /\ jobs'[call'.id].progress < jobs[call'.id].progress
      ]_vars

\* a completed job, whose progress was 100, stands at 30 after update_progress
C34_Witness ==
    /\ call.op = "update_progress"
    /\ call.progress = Some(30)
    /\ call.ok
    /\ jobs[call.id].status = COMPLETED
    /\ jobs[call.id].progress = 30

----------------------------------------------------------------------------
(* SpecPages: two pages of one listing of an unchanged table *)

\* the pages asked for: limit 1 at offset 0 and at offset 1
PageLimit == 1
Pages == {<<PageLimit, 0>>, <<PageLimit, PageLimit>>}

YEnqueue ==
    /\ issued < MaxJobs
    /\ \E p \in {0, 5} : EnqueueJob("test", Doc2, p, QUEUED)
    /\ UNCHANGED client

YList ==
    \E page \in Pages, order_by \in {"created_at", "priority"} :
        /\ ListJobs(None, None, page[1], page[2], order_by)
        /\ UNCHANGED client

PagesNext == YEnqueue \/ YList \/ Tick

SpecPages == Init /\ [][PagesNext]_vars

\* C36: list_jobs(limit=L, offset=0) followed on the same table by
\* list_jobs(limit=L, offset=L) with the same ordering: each call returns at
\* most L jobs and no job is in both pages.
C36_PagesDisjoint ==
    [][ (/\ call.op = "list_jobs" /\ call'.op = "list_jobs"
         /\ jobs' = jobs
         /\ call.order_by = call'.order_by
         /\ call.limit = call'.limit
         /\ call.offset = 0 /\ call'.offset = call.limit) =>
          /\ Len(call.rows) <= call.limit
          /\ Len(call'.rows) <= call.limit
          /\ \A i \in 1..Len(call.rows), k \in 1..Len(call'.rows) :
                call.rows[i] # call'.rows[k]
      ]_vars

----------------------------------------------------------------------------
(* SpecWorkers: the two workers of run_example_workers as asyncio tasks of  *)
(* one event loop, with no storage error. Here `client` is, once the        *)
(* workers are created, the record of the two tasks by worker_id. A task    *)
(* runs from one await to the next without interruption; the model's steps  *)
(* are no longer than that. The service a worker is given was built on a    *)
(* session (JobQueueService(db=...)), which stays open between calls, or    *)
(* without one (JobQueueService(), as in run_example_workers): then every   *)
(* call opens a session of its own and closes it before it returns, and     *)
(* the Job that get_next_job returns after db.commit() is detached from it  *)
(* with every attribute expired, so that reading job.id raises.             *)

ExampleWorkers == {"worker_0", "worker_1"}

\* sqlalchemy.orm.exc.DetachedInstanceError, as text
DetachedError == "Instance <Job> is not bound to a Session"

\* f"Processed by {self.worker_id}"
ProcessedBy(w) ==
    IF w = "worker_0" THEN <<<<"output", Str("Processed by worker_0")>>>>
    ELSE <<<<"output", Str("Processed by worker_1")>>>>

Created == DOMAIN client = ExampleWorkers

\* run_example_workers: the service and the workers are constructed and a
\* task is created for each worker's start()
ZRun ==
    /\ client = NoClient
    /\ \E bound \in BOOLEAN :
          client' = [w \in ExampleWorkers |->
                        [NoClient EXCEPT !.task = "ExampleWorker", !.pc = "created",
                                         !.session = bound]]
    /\ UNCHANGED <<jobs, issued, now, call, sess>>

ZEnqueue ==
    /\ issued < FewJobs
    /\ EnqueueJob("example", Doc2, 0, QUEUED)
    /\ UNCHANGED client

\* ExampleWorker.start up to the loop
ZStart(w) ==
    /\ Created
    /\ client[w].pc = "created"
    /\ client' = [client EXCEPT ![w].pc = "poll", ![w].running = TRUE]
    /\ UNCHANGED <<jobs, issued, now, call, sess>>

\* ExampleWorker.stop, called while another worker keeps running
ZStop(w) ==
    /\ Created
    /\ client[w].running
    /\ \E v \in ExampleWorkers \ {w} : client[v].running
    /\ client' = [client EXCEPT ![w].running = FALSE]
    /\ UNCHANGED <<jobs, issued, now, call, sess>>

\* ExampleWorker.start: one turn of the loop, up to process_job or to the
\* sleep; job.id is read for the log line before process_job is called
ZPoll(w) ==
    /\ Created
    /\ client[w].pc = "poll"
    /\ IF ~client[w].running
       THEN /\ client' = [client EXCEPT ![w].pc = "stopped"]
            /\ UNCHANGED <<jobs, issued, now, call, sess>>
       ELSE /\ GetNextJob(Some(WorkerJobTypes), Some(w))
            /\ client' =
                 IF IsNone(call'.job) THEN client
                 ELSE IF client[w].session
                 THEN [client EXCEPT ![w].pc = "stepping", ![w].id = Get(call'.job),
                                     ![w].todo = WorkerSteps]
                 ELSE [client EXCEPT ![w].id = Get(call'.job),
                                     ![w].error = Some(DetachedError)]

\* process_job: one turn of the loop over the steps
ZStep(w) ==
    /\ Created
    /\ client[w].pc = "stepping"
    /\ IF ~client[w].running
       THEN /\ UpdateJob(client[w].id, Some(QUEUED), None,
                         Some("Worker stopped, job requeued"), None, None, None)
            /\ client' = [client EXCEPT ![w].pc = "poll"]
       ELSE /\ UpdateProgress(client[w].id, Head(client[w].todo)[1],
                              Some(Head(client[w].todo)[2]))
            /\ client' = [client EXCEPT ![w].todo = Tail(@),
                                        ![w].pc = IF Tail(client[w].todo) = <<>>
                                                  THEN "completing" ELSE "stepping"]

\* process_job: update_job(status=COMPLETED, result_data=...)
ZComplete(w) ==
    /\ Created
    /\ client[w].pc = "completing"
    /\ UpdateJob(client[w].id, Some(COMPLETED), None, None, None,
                 Some(ProcessedBy(w)), None)
    /\ client' = [client EXCEPT ![w].pc = "poll", ![w].result = Some(ProcessedBy(w))]

WorkersNext ==
    \/ ZRun \/ ZEnqueue
    \/ \E w \in ExampleWorkers : ZStart(w) \/ ZStop(w) \/ ZPoll(w) \/ ZStep(w) \/ ZComplete(w)

\* the event loop runs every task that is ready, and a sleep ends
WorkersFair ==
    /\ WF_vars(ZRun)
    /\ \A w \in ExampleWorkers :
          WF_vars(ZStart(w)) /\ WF_vars(ZPoll(w)) /\ WF_vars(ZStep(w)) /\ WF_vars(ZComplete(w))

SpecWorkers == Init /\ [][WorkersNext]_vars /\ WorkersFair

\* C38: every job of a type the workers handle that is QUEUED is, later,
\* COMPLETED or FAILED.
C38_EveryJobDone ==
    \A j \in 1..FewJobs :
        (j \in DOMAIN jobs /\ jobs[j].status = QUEUED)
            ~> (j \in DOMAIN jobs /\ jobs[j].status \in {COMPLETED, FAILED})

----------------------------------------------------------------------------
(* SpecInitialize: DiffRhythmService.initialize called by several asyncio   *)
(* tasks of one event loop (python/app/services/diffrhythm_service.py). Here *)
(* `client` is, once constructed, the service: model is _model, device is   *)
(* _device, locked and waiters are the state of _initialization_lock (an    *)
(* asyncio.Lock: its flag and the queue of tasks waiting in acquire), loads *)
(* counts the calls of _load_model and failed those that raised. sess[w].pc *)
(* is where task w is: "idle", "waiting" for the lock, "loading" (at the    *)
(* await of asyncio.to_thread, holding the lock), "returned" or "raised".   *)
(* A task runs without interruption from one await to the next.             *)

\* the calls of _load_model the model follows
MaxLoads == 3

\* what torch reports of the machine: whether CUDA and MPS are available
Hardware == [cuda : BOOLEAN, mps : BOOLEAN]

\* _detect_device: CUDA before MPS before the CPU
_detect_device(hw) ==
    IF hw.cuda THEN "cuda" ELSE IF hw.mps THEN "mps" ELSE "cpu"

\* DiffRhythmService.__init__ (hw is the machine the service runs on)
NewService ==
    [task    |-> "DiffRhythmService",
     hw      |-> [cuda |-> FALSE, mps |-> FALSE],
     model   |-> None,
     device  |-> None,
     locked  |-> FALSE,
     waiters |-> <<>>,
     loads   |-> 0,
     failed  |-> 0]

Constructed == client # NoClient /\ client.task = "DiffRhythmService"

DConstruct ==
    /\ client = NoClient
    /\ \E hw \in Hardware : client' = [NewService EXCEPT !.hw = hw]
    /\ UNCHANGED <<jobs, issued, now, call, sess>>

\* asyncio.Lock.acquire taking the lock without waiting, whatever its state
LockFree_NoLock(svc) == TRUE

\* asyncio.Lock.acquire takes the lock without waiting when it is not held
\* and no task waits for it
LockFree(svc) == ~svc.locked /\ svc.waiters = <<>>

\* initialize from the lock taken up to its first await or its return: the
\* service and the place of the task after it. With the model set the call
\* returns and gives the lock back; else it detects the device and awaits
\* the load, holding the lock.
Entered(svc) ==
    IF ~IsNone(svc.model)
    THEN [svc |-> [svc EXCEPT !.locked = FALSE], pc |-> "returned"]
    ELSE [svc |-> [svc EXCEPT !.locked = TRUE, !.device = Some(_detect_device(svc.hw)),
                              !.loads = @ + 1],
          pc  |-> "loading"]

\* a task calls initialize: it enters, or it joins the waiters of the lock
DCall(w) ==
    /\ Constructed
    /\ sess[w].pc \in {"idle", "returned", "raised"}
    /\ IF LockFree(client)
       THEN /\ IsNone(client.model) => client.loads < MaxLoads
            /\ client' = Entered(client).svc
            /\ sess' = [sess EXCEPT ![w].pc = Entered(client).pc]
       ELSE /\ client' = [client EXCEPT !.waiters = Append(@, w)]
            /\ sess' = [sess EXCEPT ![w].pc = "waiting"]
    /\ UNCHANGED <<jobs, issued, now, call>>

\* the first waiter is resumed once the lock was released, and enters
DWake(w) ==
    /\ Constructed
    /\ sess[w].pc = "waiting"
    /\ ~client.locked
    /\ Head(client.waiters) = w
    /\ IsNone(client.model) => client.loads < MaxLoads
    /\ LET svc == [client EXCEPT !.waiters = Tail(@)]
       IN  /\ client' = Entered(svc).svc
           /\ sess' = [sess EXCEPT ![w].pc = Entered(svc).pc]
    /\ UNCHANGED <<jobs, issued, now, call>>

\* the thread running _load_model ends: the pipeline is stored, or the
\* exception is logged and raised again; either way the lock is released
DLoaded(w) ==
    /\ Constructed
    /\ sess[w].pc = "loading"
    /\ \/ /\ client' = [client EXCEPT !.model = Some("pipeline"), !.locked = FALSE]
          /\ sess' = [sess EXCEPT ![w].pc = "returned"]
       \/ /\ client' = [client EXCEPT !.locked = FALSE, !.failed = @ + 1]
          /\ sess' = [sess EXCEPT ![w].pc = "raised"]
    /\ UNCHANGED <<jobs, issued, now, call>>

InitializeNext == DConstruct \/ \E w \in Racers : DCall(w) \/ DWake(w) \/ DLoaded(w)

SpecInitialize == Init /\ [][InitializeNext]_vars

\* C40: with any number of tasks calling initialize, _load_model runs once
\* more than it has failed at most, and one call at a time; once the model is
\* set no load starts; a task that has returned from initialize finds the
\* model set; and tasks that wait for the lock are not stranded: the lock is
\* held by a loading task or its first waiter is ready to take it.
C40_LoadedOnce ==
    Constructed =>
        /\ client.loads <= client.failed + 1
        /\ Cardinality({w \in Racers : sess[w].pc = "loading"}) <= 1
        /\ ~IsNone(client.model) =>
              /\ client.loads = client.failed + 1
              /\ \A w \in Racers : sess[w].pc # "loading"
        /\ \A w \in Racers : sess[w].pc = "returned" => ~IsNone(client.model)
        /\ client.locked <=> \E w \in Racers : sess[w].pc = "loading"
        /\ \A i \in 1..Len(client.waiters) : sess[client.waiters[i]].pc = "waiting"

\* the one load has succeeded and its task has returned while another task,
\* which called initialize during the load, still waits for the lock
C40_Witness ==
    /\ Constructed
    /\ ~IsNone(client.model)
    /\ client.loads = 1
    /\ \E w \in Racers : sess[w].pc = "returned"
    /\ \E w \in Racers : sess[w].pc = "waiting"

====
